---------------------------- MODULE Spec2Model ----------------------------
(***************************************************************************)
(* MCP2515 CAN controller driver (can.c / can.h) for the STM32F070RBT6,    *)
(* together with the SPI transport (spi.c), the TIM3 delay service         *)
(* (timer.c) and the controller's register file as the driver documents    *)
(* it.  Every driver function is one action: the action appends to `log`   *)
(* the chip-select, SPI and delay events the function produces and leaves  *)
(* in `regs` the register file of the controller after the function.       *)
(***************************************************************************)
EXTENDS Integers, Sequences, FiniteSets, TLC

VARIABLES
    hcan,    \* CAN_Control_HandleTypeDef filled in by the application
    txcan,   \* CAN_Control_TX filled in by the application
    rxcan,   \* CAN_Control_RX of the application (read fills it)
    regs,    \* regs[s][a]: register a of the MCP2515 wired to transport s
    spiup,   \* transports whose SPI peripheral has been initialized
    log,     \* events (CS, SPI bytes, delays) of the last driver call
    call,    \* name of the last driver call
    arg,     \* scalar argument of the last driver call (mode, baud rate, buffer)
    ret      \* value returned by the last status call

vars == <<hcan, txcan, rxcan, regs, spiup, log, call, arg, ret>>

---------------------------------------------------------------------------
(* Bounds of the model.                                                    *)

\* data[k][0] of the frames the application sends is drawn from 1..MaxDataByte
MaxDataByte == 2

---------------------------------------------------------------------------
(* Program constants (can.h).                                              *)

OSC1_FREQ == 8000000
CAN_SPI1 == 0
CAN_SPI2 == 1

RESET_INS == 192        \* 0xC0
WRITE_INS == 2
READ_INS == 3
BIT_MODIFY_INS == 5

CAN_BAUD_500_KBPS == 500000
CAN_BAUD_250_KBPS == 250000
CAN_BAUD_125_KBPS == 125000
CAN_BAUD_100_KBPS == 100000
CAN_BAUD_50_KBPS == 50000

NORMAL_OP_MODE == 0
SLEEP_OP_MODE == 1
LOOPBACK_OP_MODE == 2
LISTEN_ONLY_OP_MODE == 3
CONFIGURATION_OP_MODE == 4

RXB0_TURN_MASKS_FILTERS_OFF == 1
RXB1_TURN_MASKS_FILTERS_OFF == 2
RXB0_ROLLOVER_ENABLED == 1
ROLLOVER_OCCURRED == 1
ROLLOVER_NOT_OCCURRED == 0

TXB0 == 1
TXB1 == 2
TXB2 == 4
RXB0 == 1
RXB1 == 2
RXM0 == 1
RXM1 == 2

TX_STANDARD_DATA_FRAME == 0
TX_EXTENDED_DATA_FRAME == 1
TX_STANDARD_REMOTE_FRAME == 2
TX_EXTENDED_REMOTE_FRAME == 3
RX_STANDARD_DATA_FRAME == 0
RX_EXTENDED_DATA_FRAME == 1
RX_STANDARD_REMOTE_FRAME == 2
RX_EXTENDED_REMOTE_FRAME == 3

TX_PENDING == 0
TX_LOST_ARBITRATION == 1
TX_BUS_ERROR == 2
TX_BUS_ERROR_AND_LOST_ARBITRATION == 3
TX_ABORTED == 4
TX_SUCCESS == 5

\* register addresses
CANSTAT_REG == 14       \* 0x0E
CANCTRL_REG == 15       \* 0x0F
TXRTSCTRL_REG == 13     \* 0x0D
TEC_REG == 28           \* 0x1C
REC_REG == 29           \* 0x1D
RXF0SIDH_REG == 0
RXF3SIDH_REG == 16      \* 0x10
RXM0SIDH_REG == 32      \* 0x20
RXM1SIDH_REG == 36      \* 0x24
RXM1EID0_REG == 39      \* 0x27
CNF3_REG == 40          \* 0x28
CNF2_REG == 41          \* 0x29
CNF1_REG == 42          \* 0x2A
CANINTE_REG == 43       \* 0x2B
CANINTF_REG == 44       \* 0x2C
EFLG_REG == 45          \* 0x2D
TXB0CTRL_REG == 48      \* 0x30
TXB0SIDH_REG == 49      \* 0x31
TXB0D0_REG == 54        \* 0x36
TXB1CTRL_REG == 64      \* 0x40
TXB1SIDH_REG == 65      \* 0x41
TXB1D0_REG == 70        \* 0x46
TXB2CTRL_REG == 80      \* 0x50
TXB2SIDH_REG == 81      \* 0x51
TXB2D0_REG == 86        \* 0x56
RXB0CTRL_REG == 96      \* 0x60
RXB0D0_REG == 102       \* 0x66
RXB1CTRL_REG == 112     \* 0x70
RXB1D0_REG == 118       \* 0x76
RXB1D1_REG == 119       \* 0x77

\* register bits
SRR_RECEIVED_STANDARD_REMOTE_REQUEST == 16   \* 0x10, RXBnSIDL
IDE_RECEIVED_EXTENDED_FRAME == 8             \* 0x08, RXBnSIDL
EXIDE_MSG_TRANSMIT_EXTENDED_ID == 8          \* 0x08, TXBnSIDL
EXIDE_FILTER_APPLY_ONLY_EXTENDED_FRAMES == 8 \* 0x08, RXFnSIDL
RTR_TRANSMIT_REMOTE_FRAME_REQUEST == 64      \* 0x40, TXBnDLC
RTR_RECEIVED_REMOTE_FRAME_REQUEST == 64      \* 0x40, RXBnDLC
ABTF_MESSAGE_ABORTED == 64                   \* 0x40, TXBnCTRL
MLOA_LOST_ARBITRATION == 32                  \* 0x20, TXBnCTRL
TXERR_BUS_ERROR == 16                        \* 0x10, TXBnCTRL
TXREQ_PENDING == 8                           \* 0x08, TXBnCTRL
TXREQ_NO_PENDING == 0
TXP_HIGHEST_PRIORITY == 3                    \* 0x03, TXBnCTRL
TXP_HIGH_INTER_PRIORITY == 2
RXM_RECEIVE_ANY_MESSAGE == 96                \* 0x60, RXBnCTRL
BUKT_RXB0_ROLLOVER_ENABLED == 4              \* 0x04, RXB0CTRL
BUKT1_RXB0_ROLLOVER_ENABLED == 2             \* 0x02, RXB0CTRL
ROLLOVER_ACCEPTANCE_FILTER_0 == 6
FILHIT_BIT_0 == 1                            \* 0x01, RXBnCTRL
REQOP_CONFIGURATION_MODE == 128              \* 0x80, CANCTRL
REQOP_LISTEN_MODE == 96                      \* 0x60
REQOP_LOOPBACK_MODE == 64                    \* 0x40
REQOP_SLEEP_MODE == 32                       \* 0x20
REQOP_NORMAL_MODE == 0
REQOP_MASK == 224                            \* 0xE0
ABAT_REQ_ABORT_TX == 16                      \* 0x10, CANCTRL
ABAT_TERMINATE_REQ_ABORT_TX == 0
OSM_ENABLED == 8                             \* 0x08, CANCTRL
CLKEN_CLKOUT_PIN_ENABLED == 4                \* 0x04, CANCTRL
CLKPRE_SYSTEMCLK_DIV_8 == 3                  \* 0x03, CANCTRL
WAKFIL_ENABLED == 64                         \* 0x40, CNF3
PHSEG2_3TQ == 2
PHSEG2_6TQ == 5
PHSEG2_7TQ == 6
BTLMODE_PS2_PHSEG2_CNF3 == 128               \* 0x80, CNF2
SAM_BUS_SAMPLED_THREE == 64                  \* 0x40, CNF2
PHSEG1_2TQ == 8
PHSEG1_5TQ == 32
PHSEG1_6TQ == 40
PRSEG_2TQ == 1
PRSEG_3TQ == 2
PRSEG_4TQ == 3
PRSEG_6TQ == 5
SJW_1TQ == 0
BRP_BIT_1 == 2
BRP_BIT_0 == 1
TX2IE_TXB2_EMPTY_INTERRUPT_ENABLED == 16     \* 0x10, CANINTE / CANINTF
TX1IE_TXB1_EMPTY_INTERRUPT_ENABLED == 8
TX0IE_TXB0_EMPTY_INTERRUPT_ENABLED == 4
RX1IE_RXB1_FULL_INTERRUPT_ENABLED == 2
RX0IE_RXB0_FULL_INTERRUPT_ENABLED == 1
RX1OVR_RXB1_OVERFLOW == 128                  \* 0x80, EFLG
RX0OVR_RXB0_OVERFLOW == 64                   \* 0x40, EFLG

---------------------------------------------------------------------------
(* Unsigned machine arithmetic.                                            *)

Shl(a, k) == a * (2 ^ k)
Shr(a, k) == a \div (2 ^ k)
U8(x) == x % 256

RECURSIVE BitAnd(_, _)
BitAnd(a, b) ==
    IF a = 0 \/ b = 0 THEN 0
    ELSE ((a % 2) * (b % 2)) + 2 * BitAnd(a \div 2, b \div 2)

RECURSIVE BitOr(_, _)
BitOr(a, b) ==
    IF a = 0 THEN b
    ELSE IF b = 0 THEN a
    ELSE (IF (a % 2) + (b % 2) > 0 THEN 1 ELSE 0) + 2 * BitOr(a \div 2, b \div 2)

\* ~m on a byte
Not8(m) == 255 - m

\* The outcome r of a step that starts from x (a machine, a register
\* file).  The steps of a driver call run one after the other, and they are
\* evaluated in that order: x first, then r.
Once(x, r) == IF x = x THEN r ELSE r

Transports == {CAN_SPI1, CAN_SPI2}
RegAddr == 0 .. 127
Byte == 0 .. 255


---------------------------------------------------------------------------
(* The MCP2515 as the driver's sources document it: register file,         *)
(* write protection, reset state, transmission and reception.              *)

\* Operation mode the controller is in: CANSTAT.OPMOD, same codes as REQOP.
Ctl_Mode(rf) == rf[CANSTAT_REG] \div 32

\* State of the register file after the RESET instruction: default values,
\* configuration mode.
Ctl_Reset ==
    [a \in RegAddr |->
        IF a = CANCTRL_REG
        THEN REQOP_CONFIGURATION_MODE + CLKEN_CLKOUT_PIN_ENABLED + CLKPRE_SYSTEMCLK_DIV_8
        ELSE IF a = CANSTAT_REG THEN REQOP_CONFIGURATION_MODE
        ELSE 0]

\* Registers that are modifiable in configuration mode only:
\* CNF1..CNF3, TXRTSCTRL, the filters RXFn* and the masks RXMn*.
Ctl_ConfigOnly(a) ==
    \/ a \in CNF3_REG .. CNF1_REG
    \/ a = TXRTSCTRL_REG
    \/ a \in 0 .. 11
    \/ a \in 16 .. 27
    \/ a \in 32 .. RXM1EID0_REG

Ctl_IsTXBnCTRL(a) == a \in {TXB0CTRL_REG, TXB1CTRL_REG, TXB2CTRL_REG}

\* Registers the host cannot write: CANSTAT, TEC, REC and the RX buffers'
\* identifier, length and data registers.
Ctl_ReadOnly(a) ==
    \/ a \in {CANSTAT_REG, TEC_REG, REC_REG}
    \/ a \in (RXB0CTRL_REG + 1) .. (RXB0CTRL_REG + 13)
    \/ a \in (RXB1CTRL_REG + 1) .. (RXB1CTRL_REG + 13)

\* TXBnCTRL value c when byte v is stored in CANCTRL: with ABAT set in v a
\* pending transmission is aborted (TXREQ cleared, ABTF set).
Ctl_Abort(c, v) ==
    IF /\ BitAnd(v, ABAT_REQ_ABORT_TX) = ABAT_REQ_ABORT_TX
       /\ BitAnd(c, TXREQ_PENDING) = TXREQ_PENDING
    THEN BitOr(BitAnd(c, Not8(TXREQ_PENDING)), ABTF_MESSAGE_ABORTED)
    ELSE c

\* One byte v arriving for register a.
Ctl_Store(rf, a, v) ==
    IF Ctl_ReadOnly(a) THEN rf
    ELSE IF Ctl_ConfigOnly(a) /\ Ctl_Mode(rf) # CONFIGURATION_OP_MODE THEN rf
    ELSE IF a = CANCTRL_REG THEN
        [rf EXCEPT ![CANCTRL_REG] = v,
                   ![CANSTAT_REG] = IF v \div 32 <= CONFIGURATION_OP_MODE
                                    THEN BitAnd(v, REQOP_MASK) + (@ % 32)
                                    ELSE @,
                   ![TXB0CTRL_REG] = Ctl_Abort(@, v),
                   ![TXB1CTRL_REG] = Ctl_Abort(@, v),
                   ![TXB2CTRL_REG] = Ctl_Abort(@, v)]
    ELSE IF Ctl_IsTXBnCTRL(a) THEN
        \* TXREQ and TXP are writable; requesting transmission clears the
        \* ABTF, MLOA and TXERR flags.
        [rf EXCEPT ![a] =
            IF BitAnd(v, TXREQ_PENDING) = TXREQ_PENDING
            THEN BitAnd(v, TXREQ_PENDING + TXP_HIGHEST_PRIORITY)
            ELSE BitAnd(@, ABTF_MESSAGE_ABORTED + MLOA_LOST_ARBITRATION + TXERR_BUS_ERROR)
                 + BitAnd(v, TXP_HIGHEST_PRIORITY)]
    ELSE IF a = RXB0CTRL_REG THEN
        \* RXM and BUKT are writable, BUKT1 is a read-only copy of BUKT.
        [rf EXCEPT ![a] =
            BitAnd(@, 9) + BitAnd(v, RXM_RECEIVE_ANY_MESSAGE + BUKT_RXB0_ROLLOVER_ENABLED)
            + (IF BitAnd(v, BUKT_RXB0_ROLLOVER_ENABLED) # 0
               THEN BUKT1_RXB0_ROLLOVER_ENABLED ELSE 0)]
    ELSE IF a = RXB1CTRL_REG THEN
        [rf EXCEPT ![a] = BitAnd(@, 15) + BitAnd(v, RXM_RECEIVE_ANY_MESSAGE)]
    ELSE IF a = EFLG_REG THEN
        \* only RX1OVR and RX0OVR can be changed by the host
        [rf EXCEPT ![a] = (@ % 64) + BitAnd(v, RX1OVR_RXB1_OVERFLOW + RX0OVR_RXB0_OVERFLOW)]
    ELSE [rf EXCEPT ![a] = v]

\* WRITE instruction: the bytes go to consecutive addresses.
RECURSIVE Ctl_Write(_, _, _)
Ctl_Write(rf, a, data) ==
    IF data = <<>> THEN rf
    ELSE Once(rf, Ctl_Write(Ctl_Store(rf, a, Head(data)), (a + 1) % 128, Tail(data)))

\* READ instruction: n bytes from consecutive addresses.
\* Mask and filter registers read as zeros outside configuration mode.
Ctl_IsMaskOrFilter(a) ==
    a \in 0 .. 11 \/ a \in 16 .. 27 \/ a \in 32 .. RXM1EID0_REG

Ctl_Read(rf, a, n) ==
    [i \in 1 .. n |->
        IF Ctl_IsMaskOrFilter((a + i - 1) % 128) /\ Ctl_Mode(rf) # CONFIGURATION_OP_MODE
        THEN 0
        ELSE rf[(a + i - 1) % 128]]

\* Registers that honour the BIT MODIFY mask.
Ctl_BitModifiable(a) ==
    \/ Ctl_IsTXBnCTRL(a)
    \/ a \in {RXB0CTRL_REG, RXB1CTRL_REG}
    \/ a \in CNF3_REG .. EFLG_REG
    \/ a \in {12, TXRTSCTRL_REG, CANCTRL_REG}

\* BIT MODIFY instruction; on the other registers the mask is forced to 0xFF.
Ctl_Bit(rf, a, mask, data) ==
    IF Ctl_BitModifiable(a)
    THEN Ctl_Store(rf, a, BitAnd(rf[a], Not8(mask)) + BitAnd(data, mask))
    ELSE Ctl_Store(rf, a, data)

---------------------------------------------------------------------------
(* Transport (spi.c) and delay service (timer.c).  A machine m is the pair *)
(* of the register files and the event log of the running driver call,     *)
(* with the set `up` of the transports whose peripheral is enabled.        *)

Ev(e, s, b, u) == [ev |-> e, spi |-> s, bytes |-> b, us |-> u]

Emit(m, e) == [m EXCEPT !.log = Append(@, e)]

\* SPIx_Init: configures the peripheral and leaves its CS line idle (high).
SPI_Init(m, s) ==
    [Emit(Emit(m, Ev("spi_init", s, <<>>, 0)), Ev("cs_disable", s, <<>>, 0))
        EXCEPT !.up = @ \cup {s}]

SPI_CS_Enable(m, s) == Emit(m, Ev("cs_enable", s, <<>>, 0))
SPI_CS_Disable(m, s) == Emit(m, Ev("cs_disable", s, <<>>, 0))

\* SPIx_Write(data, size): size bytes shifted out on MOSI.
SPI_Write(m, s, data) == Emit(m, Ev("write", s, data, 0))

\* SPIx_Read(read, size): size bytes shifted in from MISO.
SPI_Read(m, s, data) == Emit(m, Ev("read", s, data, 0))

\* TIM3_Delay_us(us), called on behalf of handle h.
TIM3_Delay_us(m, h, us) == Emit(m, Ev("delay", h.spi, <<>>, us))

---------------------------------------------------------------------------
(* SPI command layer (can.c).                                              *)

\* Variant: the start-up time of the oscillator taken a thousand times longer.
GET_OST_Thousandfold(osc_freq) == 1000 * (128000000 \div osc_freq)

\* uint8_t ost = GET_OST( OSC1_FREQ ): the quotient is stored in 8 bits.
GET_OST(osc_freq) == 128000000 \div osc_freq

CAN_Control_Reset(m, h) ==
    LET ost == U8(GET_OST(OSC1_FREQ))
        m1 == IF h.spi \in Transports
              THEN LET a == SPI_CS_Enable(m, h.spi)
                       b == SPI_Write(a, h.spi, <<RESET_INS>>)
                       c == SPI_CS_Disable(b, h.spi)
                   IN  [c EXCEPT !.regs[h.spi] = Ctl_Reset]
              ELSE m
    IN  Once(m, TIM3_Delay_us(TIM3_Delay_us(m1, h, 50), h, ost))

\* Variant: the settling delay runs before the chip select is released.
CAN_Control_Register_Write_DelayInside(m, h, reg_addr, data) ==
    IF h.spi \in Transports
    THEN LET a == SPI_CS_Enable(m, h.spi)
             b == SPI_Write(a, h.spi, <<WRITE_INS>>)
             c == SPI_Write(b, h.spi, <<reg_addr>>)
             d == SPI_Write(c, h.spi, data)
             e == SPI_CS_Disable(TIM3_Delay_us(d, h, 50), h.spi)
         IN  [e EXCEPT !.regs[h.spi] = Ctl_Write(@, reg_addr, data)]
    ELSE TIM3_Delay_us(m, h, 50)

CAN_Control_Register_Write(m, h, reg_addr, data) ==
    LET m1 == IF h.spi \in Transports
              THEN LET a == SPI_CS_Enable(m, h.spi)
                       b == SPI_Write(a, h.spi, <<WRITE_INS>>)
                       c == SPI_Write(b, h.spi, <<reg_addr>>)
                       d == SPI_Write(c, h.spi, data)
                       e == SPI_CS_Disable(d, h.spi)
                   IN  [e EXCEPT !.regs[h.spi] = Ctl_Write(@, reg_addr, data)]
              ELSE m
    IN  Once(m, TIM3_Delay_us(m1, h, 50))

\* The bytes a READ of `size` registers from reg_addr delivers to the host.
RegisterReadData(m, h, reg_addr, size) == Ctl_Read(m.regs[h.spi], reg_addr, size)

\* Variant: a READ without the settling delay.
CAN_Control_Register_Read_NoDelay(m, h, reg_addr, size) ==
    IF h.spi \in Transports
    THEN LET a == SPI_CS_Enable(m, h.spi)
             b == SPI_Write(a, h.spi, <<READ_INS>>)
             c == SPI_Write(b, h.spi, <<reg_addr>>)
             d == SPI_Read(c, h.spi, RegisterReadData(m, h, reg_addr, size))
         IN  SPI_CS_Disable(d, h.spi)
    ELSE m

CAN_Control_Register_Read(m, h, reg_addr, size) ==
    LET m1 == IF h.spi \in Transports
              THEN LET a == SPI_CS_Enable(m, h.spi)
                       b == SPI_Write(a, h.spi, <<READ_INS>>)
                       c == SPI_Write(b, h.spi, <<reg_addr>>)
                       d == SPI_Read(c, h.spi, RegisterReadData(m, h, reg_addr, size))
                   IN  SPI_CS_Disable(d, h.spi)
              ELSE m
    IN  Once(m, TIM3_Delay_us(m1, h, 50))

\* Variant: the branch of the second transport drives the first one.
CAN_Control_Register_Bit_FirstTransport(m, h, reg_addr, mask, data) ==
    LET m1 == IF h.spi \in Transports
              THEN LET a == SPI_CS_Enable(m, CAN_SPI1)
                       b == SPI_Write(a, CAN_SPI1, <<BIT_MODIFY_INS>>)
                       c == SPI_Write(b, CAN_SPI1, <<reg_addr>>)
                       d == SPI_Write(c, CAN_SPI1, <<mask>>)
                       e == SPI_Write(d, CAN_SPI1, <<data>>)
                       f == SPI_CS_Disable(e, CAN_SPI1)
                   IN  [f EXCEPT !.regs[CAN_SPI1] = Ctl_Bit(@, reg_addr, mask, data)]
              ELSE m
    IN  Once(m, TIM3_Delay_us(m1, h, 50))

CAN_Control_Register_Bit(m, h, reg_addr, mask, data) ==
    LET m1 == IF h.spi \in Transports
              THEN LET a == SPI_CS_Enable(m, h.spi)
                       b == SPI_Write(a, h.spi, <<BIT_MODIFY_INS>>)
                       c == SPI_Write(b, h.spi, <<reg_addr>>)
                       d == SPI_Write(c, h.spi, <<mask>>)
                       e == SPI_Write(d, h.spi, <<data>>)
                       f == SPI_CS_Disable(e, h.spi)
                   IN  [f EXCEPT !.regs[h.spi] = Ctl_Bit(@, reg_addr, mask, data)]
              ELSE m
    IN  Once(m, TIM3_Delay_us(m1, h, 50))

---------------------------------------------------------------------------
(* Mode controller and bit-timing planner (can.c).                         *)

\* REQOP code of the switch case that handles opmode; the default case
\* (no case) writes nothing.
OpModeValid(opmode) == opmode \in NORMAL_OP_MODE .. CONFIGURATION_OP_MODE

ReqopOf(opmode) ==
    CASE opmode = NORMAL_OP_MODE -> REQOP_NORMAL_MODE
      [] opmode = SLEEP_OP_MODE -> REQOP_SLEEP_MODE
      [] opmode = LOOPBACK_OP_MODE -> REQOP_LOOPBACK_MODE
      [] opmode = LISTEN_ONLY_OP_MODE -> REQOP_LISTEN_MODE
      [] opmode = CONFIGURATION_OP_MODE -> REQOP_CONFIGURATION_MODE

\* Variant: the mode is shifted into REQOP without a default case.
CAN_Control_Set_Op_Mode_NoDefault(m, h, opmode) ==
    CAN_Control_Register_Write(m, h, CANCTRL_REG, <<BitOr(h.oneshot, Shl(opmode % 8, 5))>>)

\* Variant: the mode change is confirmed by reading CANSTAT back.
CAN_Control_Set_Op_Mode_Polled(m, h, opmode) ==
    IF OpModeValid(opmode)
    THEN CAN_Control_Register_Read(
             CAN_Control_Register_Write(m, h, CANCTRL_REG, <<BitOr(h.oneshot, ReqopOf(opmode))>>),
             h, CANSTAT_REG, 1)
    ELSE m

CAN_Control_Set_Op_Mode(m, h, opmode) ==
    IF OpModeValid(opmode)
    THEN CAN_Control_Register_Write(m, h, CANCTRL_REG, <<BitOr(h.oneshot, ReqopOf(opmode))>>)
    ELSE m

BaudRates ==
    {CAN_BAUD_500_KBPS, CAN_BAUD_250_KBPS, CAN_BAUD_125_KBPS,
     CAN_BAUD_100_KBPS, CAN_BAUD_50_KBPS}

\* Variant: the bytes of the 500 kbit/s case in the order CNF1, CNF2, CNF3.
BitTiming_Ascending(h, baudrate) ==
    << SJW_1TQ,
       BitOr(BitOr(BTLMODE_PS2_PHSEG2_CNF3, h.samplepoint), BitOr(PHSEG1_2TQ, PRSEG_2TQ)),
       BitOr(h.wakeupfilter, PHSEG2_3TQ) >>

\* Variant: every rate is given the bytes of the 125 kbit/s case.
BitTiming_OneRow(h, baudrate) ==
    << BitOr(h.wakeupfilter, PHSEG2_6TQ),
       BitOr(BitOr(BTLMODE_PS2_PHSEG2_CNF3, h.samplepoint), BitOr(PHSEG1_6TQ, PRSEG_3TQ)),
       BitOr(SJW_1TQ, BRP_BIT_0) >>

\* The CNF3, CNF2, CNF1 bytes of the switch case that handles baudrate.
BitTiming(h, baudrate) ==
    CASE baudrate = CAN_BAUD_500_KBPS ->
            << BitOr(h.wakeupfilter, PHSEG2_3TQ),
               BitOr(BitOr(BTLMODE_PS2_PHSEG2_CNF3, h.samplepoint), BitOr(PHSEG1_2TQ, PRSEG_2TQ)),
               SJW_1TQ >>
      [] baudrate = CAN_BAUD_250_KBPS ->
            << BitOr(h.wakeupfilter, PHSEG2_6TQ),
               BitOr(BitOr(BTLMODE_PS2_PHSEG2_CNF3, h.samplepoint), BitOr(PHSEG1_5TQ, PRSEG_4TQ)),
               SJW_1TQ >>
      [] baudrate = CAN_BAUD_125_KBPS ->
            << BitOr(h.wakeupfilter, PHSEG2_6TQ),
               BitOr(BitOr(BTLMODE_PS2_PHSEG2_CNF3, h.samplepoint), BitOr(PHSEG1_6TQ, PRSEG_3TQ)),
               BitOr(SJW_1TQ, BRP_BIT_0) >>
      [] baudrate = CAN_BAUD_100_KBPS ->
            << BitOr(h.wakeupfilter, PHSEG2_7TQ),
               BitOr(BitOr(BTLMODE_PS2_PHSEG2_CNF3, h.samplepoint), BitOr(PHSEG1_6TQ, PRSEG_6TQ)),
               BitOr(SJW_1TQ, BRP_BIT_0) >>
      [] baudrate = CAN_BAUD_50_KBPS ->
            << BitOr(h.wakeupfilter, PHSEG2_7TQ),
               BitOr(BitOr(BTLMODE_PS2_PHSEG2_CNF3, h.samplepoint), BitOr(PHSEG1_6TQ, PRSEG_6TQ)),
               BitOr(BitOr(SJW_1TQ, BRP_BIT_1), BRP_BIT_0) >>

CAN_Control_Set_Baud_Rate(m, h, baudrate) ==
    IF baudrate \in BaudRates
    THEN CAN_Control_Register_Write(m, h, CNF3_REG, BitTiming(h, baudrate))
    ELSE m

\* Value init composes for RXB0CTRL (0: no write).
InitRXB0CTRL(h) ==
    BitOr(IF BitAnd(h.rxbufferopmode, RXB0_TURN_MASKS_FILTERS_OFF) = RXB0_TURN_MASKS_FILTERS_OFF
          THEN RXM_RECEIVE_ANY_MESSAGE ELSE 0,
          IF BitAnd(h.rxbuffer0rollover, RXB0_ROLLOVER_ENABLED) = RXB0_ROLLOVER_ENABLED
          THEN BUKT_RXB0_ROLLOVER_ENABLED ELSE 0)

\* Variant: init that commits the operation mode right after the reset.
CAN_Control_Init_ModeFirst(m, h) ==
    IF h.spi = CAN_SPI1 \/ h.spi = CAN_SPI2
    THEN LET a == CAN_Control_Set_Op_Mode(CAN_Control_Reset(SPI_Init(m, h.spi), h), h, h.opmode)
             b == CAN_Control_Set_Baud_Rate(a, h, h.baudrate)
             c == IF InitRXB0CTRL(h) # 0
                  THEN CAN_Control_Register_Write(b, h, RXB0CTRL_REG, <<InitRXB0CTRL(h)>>)
                  ELSE b
         IN  IF BitAnd(h.rxbufferopmode, RXB1_TURN_MASKS_FILTERS_OFF) = RXB1_TURN_MASKS_FILTERS_OFF
             THEN CAN_Control_Register_Write(c, h, RXB1CTRL_REG, <<RXM_RECEIVE_ANY_MESSAGE>>)
             ELSE c
    ELSE m

\* Variant: init without the check of the transport selector.
CAN_Control_Init_Unguarded(m, h) ==
    CAN_Control_Set_Op_Mode(
        CAN_Control_Set_Baud_Rate(CAN_Control_Reset(SPI_Init(m, h.spi), h), h, h.baudrate),
        h, h.opmode)

\* Variant: the byte for RXB1CTRL is ORed into the byte composed for
\* RXB0CTRL.
CAN_Control_Init_SharedByte(m, h) ==
    IF h.spi = CAN_SPI1 \/ h.spi = CAN_SPI2
    THEN LET a == SPI_Init(m, h.spi)
             b == CAN_Control_Reset(a, h)
             c == CAN_Control_Set_Baud_Rate(b, h, h.baudrate)
             d == IF InitRXB0CTRL(h) # 0
                  THEN CAN_Control_Register_Write(c, h, RXB0CTRL_REG, <<InitRXB0CTRL(h)>>)
                  ELSE c
             e == IF BitAnd(h.rxbufferopmode, RXB1_TURN_MASKS_FILTERS_OFF) = RXB1_TURN_MASKS_FILTERS_OFF
                  THEN CAN_Control_Register_Write(d, h, RXB1CTRL_REG,
                           <<BitOr(InitRXB0CTRL(h), RXM_RECEIVE_ANY_MESSAGE)>>)
                  ELSE d
         IN  Once(a, Once(b, Once(c, Once(d, Once(e,
                 CAN_Control_Set_Op_Mode(e, h, h.opmode))))))
    ELSE m

CAN_Control_Init(m, h) ==
    IF h.spi = CAN_SPI1 \/ h.spi = CAN_SPI2
    THEN LET a == SPI_Init(m, h.spi)
             b == CAN_Control_Reset(a, h)
             c == CAN_Control_Set_Baud_Rate(b, h, h.baudrate)
             d == IF InitRXB0CTRL(h) # 0
                  THEN CAN_Control_Register_Write(c, h, RXB0CTRL_REG, <<InitRXB0CTRL(h)>>)
                  ELSE c
             e == IF BitAnd(h.rxbufferopmode, RXB1_TURN_MASKS_FILTERS_OFF) = RXB1_TURN_MASKS_FILTERS_OFF
                  THEN CAN_Control_Register_Write(d, h, RXB1CTRL_REG, <<RXM_RECEIVE_ANY_MESSAGE>>)
                  ELSE d
         IN  Once(a, Once(b, Once(c, Once(d, Once(e,
                 CAN_Control_Set_Op_Mode(e, h, h.opmode))))))
    ELSE m

---------------------------------------------------------------------------
(* Acceptance masks and filters (can.c).                                   *)

\* RXFn and RXFn_EXTENDED_ID_ENABLED: bit n of the selector bytes.
RXFn(n) == 2 ^ n

\* Variant: the six filter banks follow each other without a gap.
RXFnSIDH_Contiguous(n) == RXF0SIDH_REG + 4 * n

\* RXF0..RXF2 are at 0x00, 0x04, 0x08 and RXF3..RXF5 at 0x10, 0x14, 0x18.
RXFnSIDH(n) == IF n < 3 THEN RXF0SIDH_REG + 4 * n ELSE RXF3SIDH_REG + 4 * (n - 3)

\* Variant: SID[2:0] is taken from bits 18:16 of the value.
AcceptanceBytes_LowSid(value, exide) ==
    << U8(Shr(value, 21)),
       BitOr(BitOr(BitAnd(Shr(value, 11), 224), BitAnd(Shr(value, 16), 3)), exide),
       U8(Shr(value, 8)),
       U8(value) >>

\* spi_write[0..3] for a 29-bit mask or filter value; exide is the EXIDE bit.
AcceptanceBytes(value, exide) ==
    << U8(Shr(value, 21)),
       BitOr(BitOr(BitAnd(Shr(value, 13), 224), BitAnd(Shr(value, 16), 3)), exide),
       U8(Shr(value, 8)),
       U8(value) >>

\* Variant: the mask registers are programmed byte by byte with BIT MODIFY.
RECURSIVE BitModifyBytes(_, _, _, _)
BitModifyBytes(m, h, reg_addr, data) ==
    IF data = <<>> THEN m
    ELSE BitModifyBytes(CAN_Control_Register_Bit(m, h, reg_addr, 255, Head(data)),
                        h, reg_addr + 1, Tail(data))

CAN_Control_Set_RX_Mask_BitModify(m, h, hmask) ==
    LET a == IF BitAnd(hmask.rxmasknmbr, RXM0) = RXM0
             THEN BitModifyBytes(m, h, RXM0SIDH_REG, AcceptanceBytes(hmask.rxmaskvalue[0], 0))
             ELSE m
    IN  IF BitAnd(hmask.rxmasknmbr, RXM1) = RXM1
        THEN BitModifyBytes(a, h, RXM1SIDH_REG, AcceptanceBytes(hmask.rxmaskvalue[1], 0))
        ELSE a

CAN_Control_Set_RX_Mask(m, h, hmask) ==
    LET a == IF BitAnd(hmask.rxmasknmbr, RXM0) = RXM0
             THEN CAN_Control_Register_Write(m, h, RXM0SIDH_REG,
                                             AcceptanceBytes(hmask.rxmaskvalue[0], 0))
             ELSE m
    IN  Once(a, IF BitAnd(hmask.rxmasknmbr, RXM1) = RXM1
                THEN CAN_Control_Register_Write(a, h, RXM1SIDH_REG,
                                                AcceptanceBytes(hmask.rxmaskvalue[1], 0))
                ELSE a)

\* Filters n, n + 1, .. 5 in turn.
RECURSIVE SetFiltersFrom(_, _, _, _)
SetFiltersFrom(m, h, hfilter, n) ==
    IF n > 5 THEN m
    ELSE Once(m, SetFiltersFrom(
            IF BitAnd(hfilter.rxfilternmbr, RXFn(n)) = RXFn(n)
            THEN CAN_Control_Register_Write(m, h, RXFnSIDH(n),
                    AcceptanceBytes(hfilter.rxfiltervalue[n],
                                    IF BitAnd(hfilter.extendedidenable, RXFn(n)) = RXFn(n)
                                    THEN EXIDE_FILTER_APPLY_ONLY_EXTENDED_FRAMES ELSE 0))
            ELSE m,
            h, hfilter, n + 1))

CAN_Control_Set_RX_Filter(m, h, hfilter) == SetFiltersFrom(m, h, hfilter, 0)

---------------------------------------------------------------------------
(* The controller's message path: what the MCP2515 does with a TX buffer   *)
(* whose TXREQ the host has set, while the host waits.                     *)

TXBnCTRL(n) == TXB0CTRL_REG + 16 * n
RXBnCTRL(n) == RXB0CTRL_REG + 16 * n
TXnIF(n) == TX0IE_TXB0_EMPTY_INTERRUPT_ENABLED * (2 ^ n)
RXnIF(n) == RX0IE_RXB0_FULL_INTERRUPT_ENABLED * (2 ^ n)

Min(a, b) == IF a < b THEN a ELSE b

\* The message of TX buffer t is stored in RX buffer r with filter hit f.
Ctl_StoreMessage(rf, t, r, f) ==
    LET tb == TXBnCTRL(t)
        rb == RXBnCTRL(r)
        ext == BitAnd(rf[tb + 2], EXIDE_MSG_TRANSMIT_EXTENDED_ID) # 0
        rtr == BitAnd(rf[tb + 5], RTR_TRANSMIT_REMOTE_FRAME_REQUEST) # 0
        len == IF rtr THEN 0 ELSE Min(rf[tb + 5] % 16, 8)
    IN  [a \in RegAddr |->
            IF a = rb THEN
                IF r = 0 THEN BitAnd(rf[a], 254) + (f % 2)
                ELSE BitAnd(rf[a], 248) + (f % 8)
            ELSE IF a = rb + 1 THEN rf[tb + 1]
            ELSE IF a = rb + 2 THEN
                BitAnd(rf[tb + 2], 235)
                + (IF ~ext /\ rtr THEN SRR_RECEIVED_STANDARD_REMOTE_REQUEST ELSE 0)
            ELSE IF a = rb + 3 THEN rf[tb + 3]
            ELSE IF a = rb + 4 THEN rf[tb + 4]
            ELSE IF a = rb + 5 THEN
                (rf[tb + 5] % 16)
                + (IF ext /\ rtr THEN RTR_RECEIVED_REMOTE_FRAME_REQUEST ELSE 0)
            ELSE IF a \in (rb + 6) .. (rb + 5 + len) THEN rf[tb + (a - rb)]
            ELSE IF a = CANINTF_REG THEN BitOr(rf[a], RXnIF(r))
            ELSE rf[a]]

Ctl_Overflow(rf, r) ==
    [rf EXCEPT ![EFLG_REG] = BitOr(@, IF r = 0 THEN RX0OVR_RXB0_OVERFLOW
                                               ELSE RX1OVR_RXB1_OVERFLOW)]

\* Acceptance of the message of TX buffer t.  A buffer whose RXM bits are
\* 11 takes any message; otherwise the masks and filters decide, which is
\* the choice acc = [buf, filhit] (buf: 0 none, RXB0, RXB1).
Ctl_Receive(rf, t, acc) ==
    LET any0 == BitAnd(rf[RXB0CTRL_REG], RXM_RECEIVE_ANY_MESSAGE) = RXM_RECEIVE_ANY_MESSAGE
        any1 == BitAnd(rf[RXB1CTRL_REG], RXM_RECEIVE_ANY_MESSAGE) = RXM_RECEIVE_ANY_MESSAGE
        hit0 == any0 \/ acc.buf = RXB0
        hit1 == any1 \/ acc.buf = RXB1
        f0 == IF any0 THEN 0 ELSE acc.filhit % 2
        f1 == IF any1 /\ acc.buf # RXB1 THEN 0 ELSE acc.filhit % 8
        full0 == BitAnd(rf[CANINTF_REG], RXnIF(0)) # 0
        full1 == BitAnd(rf[CANINTF_REG], RXnIF(1)) # 0
        bukt == BitAnd(rf[RXB0CTRL_REG], BUKT_RXB0_ROLLOVER_ENABLED) # 0
    IN  IF hit0 THEN
            IF ~full0 THEN Ctl_StoreMessage(rf, t, 0, f0)
            ELSE IF bukt THEN
                IF ~full1 THEN Ctl_StoreMessage(rf, t, 1, f0) ELSE Ctl_Overflow(rf, 1)
            ELSE Ctl_Overflow(rf, 0)
        ELSE IF hit1 THEN
            IF ~full1 THEN Ctl_StoreMessage(rf, t, 1, f1) ELSE Ctl_Overflow(rf, 1)
        ELSE rf

TxOutcomes == {"sent", "pending", "lost_arbitration", "bus_error", "both"}

\* TX buffer t has TXREQ set.  In loopback mode the message is always
\* transmitted (internally) and received back; in normal mode the bus
\* decides (env.outcome); in the other modes nothing is transmitted.
Ctl_Transmit(rf, t, env) ==
    LET mode == Ctl_Mode(rf)
        done == [rf EXCEPT ![TXBnCTRL(t)] = BitAnd(@, TXP_HIGHEST_PRIORITY),
                           ![CANINTF_REG] = BitOr(@, TXnIF(t))]
    IN  IF BitAnd(rf[TXBnCTRL(t)], TXREQ_PENDING) = 0 THEN rf
        ELSE IF mode = LOOPBACK_OP_MODE THEN Ctl_Receive(done, t, env.acc)
        ELSE IF mode = NORMAL_OP_MODE THEN
            CASE env.outcome = "sent" -> done
              [] env.outcome = "pending" -> rf
              [] env.outcome = "lost_arbitration" ->
                    [rf EXCEPT ![TXBnCTRL(t)] = BitOr(@, MLOA_LOST_ARBITRATION)]
              [] env.outcome = "bus_error" ->
                    [rf EXCEPT ![TXBnCTRL(t)] = BitOr(@, TXERR_BUS_ERROR)]
              [] env.outcome = "both" ->
                    [rf EXCEPT ![TXBnCTRL(t)] =
                        BitOr(@, MLOA_LOST_ARBITRATION + TXERR_BUS_ERROR)]
        ELSE rf

---------------------------------------------------------------------------
(* Frame transmitter (can.c, CAN_Control_Send_CAN_Frame).                  *)

TXBnSIDH(n) == TXB0SIDH_REG + 16 * n
TXBnD0(n) == TXB0D0_REG + 16 * n

IsExtended(frametype) ==
    frametype = TX_EXTENDED_DATA_FRAME \/ frametype = TX_EXTENDED_REMOTE_FRAME

IsRemote(frametype) ==
    frametype = TX_STANDARD_REMOTE_FRAME \/ frametype = TX_EXTENDED_REMOTE_FRAME

\* spi_write[0..3] of an extended frame: SIDH, SIDL (with EXIDE), EID8, EID0.
EncodeExtendedId(id) ==
    << U8(Shr(id, 21)),
       BitOr(BitOr(BitAnd(Shr(id, 13), 224), BitAnd(Shr(id, 16), 3)),
             EXIDE_MSG_TRANSMIT_EXTENDED_ID),
       U8(Shr(id, 8)),
       U8(id) >>

\* spi_write[0..3] of a standard frame; (uint8_t)(id << 5) keeps id[2:0].
EncodeStandardId(id) ==
    << U8(Shr(id, 3)), Shl(id % 8, 5), 0, 0 >>

\* spi_write[4]: TXBnDLC.
EncodeDlc(frametype, datalength) ==
    IF IsRemote(frametype)
    THEN BitOr(datalength, RTR_TRANSMIT_REMOTE_FRAME_REQUEST)
    ELSE datalength

\* The n bytes at txcan->data[k]; the rows of data[3][8] are contiguous, and
\* a byte past data[2][7] is whatever the memory after the array holds (junk).
TxData(tx, k, n, junk) ==
    [i \in 1 .. n |-> IF 8 * k + i - 1 \in DOMAIN tx.data THEN tx.data[8 * k + i - 1] ELSE junk]

WAIT_SEND_STANDARD_DATA_FRAME(d, b) ==
    (8 * d + 44 + ((33 + 8 * d) \div 4)) * (1000000 \div b)
\* Variant: the stuff bits are counted on the data field only.
WAIT_SEND_EXTENDED_DATA_FRAME_DataStuffing(d, b) ==
    (8 * d + 64 + ((8 * d) \div 4)) * (1000000 \div b)

WAIT_SEND_EXTENDED_DATA_FRAME(d, b) ==
    (8 * d + 64 + ((53 + 8 * d) \div 4)) * (1000000 \div b)
WAIT_SEND_STANDARD_REMOTE_FRAME(b) == 50 * (1000000 \div b)
WAIT_SEND_EXTENDED_REMOTE_FRAME(b) == 73 * (1000000 \div b)

\* Argument of the TIM3_Delay_us call that ends the handling of a buffer.
WaitUs(frametype, datalength, baudrate) ==
    IF frametype = TX_EXTENDED_DATA_FRAME
    THEN WAIT_SEND_EXTENDED_DATA_FRAME(datalength, baudrate)
    ELSE IF frametype = TX_STANDARD_DATA_FRAME
    THEN WAIT_SEND_STANDARD_DATA_FRAME(datalength, baudrate)
    ELSE IF frametype = TX_EXTENDED_REMOTE_FRAME
    THEN WAIT_SEND_EXTENDED_REMOTE_FRAME(baudrate)
    ELSE WAIT_SEND_STANDARD_REMOTE_FRAME(baudrate)

\* Variant: the block of TX buffer k requests the transmission before it
\* writes the data bytes.
SendBuffer_RequestFirst(m, h, tx, k, env) ==
    LET ft == tx.txframetype[k]
        idregs == IF IsExtended(ft) THEN EncodeExtendedId(tx.txid[k])
                  ELSE EncodeStandardId(tx.txid[k])
        a == CAN_Control_Register_Write(m, h, TXBnSIDH(k),
                 idregs \o <<EncodeDlc(ft, tx.datalength[k])>>)
        b == CAN_Control_Register_Write(a, h, TXBnCTRL(k), <<TXREQ_PENDING>>)
        c == IF IsRemote(ft) THEN b
             ELSE CAN_Control_Register_Write(b, h, TXBnD0(k), TxData(tx, k, tx.datalength[k], env[k].junk))
        d == IF h.spi \in Transports
             THEN [c EXCEPT !.regs[h.spi] = Ctl_Transmit(@, k, env[k])]
             ELSE c
    IN  Once(a, Once(b, Once(c, Once(d,
            TIM3_Delay_us(d, h, WaitUs(ft, tx.datalength[k], h.baudrate))))))

\* The block of TX buffer k (0, 1, 2); env[k] is what the controller and
\* the bus do with the message while the host waits.
SendBuffer(m, h, tx, k, env) ==
    LET ft == tx.txframetype[k]
        idregs == IF IsExtended(ft) THEN EncodeExtendedId(tx.txid[k])
                  ELSE EncodeStandardId(tx.txid[k])
        a == CAN_Control_Register_Write(m, h, TXBnSIDH(k),
                 idregs \o <<EncodeDlc(ft, tx.datalength[k])>>)
        b == IF IsRemote(ft) THEN a
             ELSE CAN_Control_Register_Write(a, h, TXBnD0(k), TxData(tx, k, tx.datalength[k], env[k].junk))
        c == CAN_Control_Register_Write(b, h, TXBnCTRL(k), <<TXREQ_PENDING>>)
        d == IF h.spi \in Transports
             THEN [c EXCEPT !.regs[h.spi] = Ctl_Transmit(@, k, env[k])]
             ELSE c
    IN  Once(a, Once(b, Once(c, Once(d,
            TIM3_Delay_us(d, h, WaitUs(ft, tx.datalength[k], h.baudrate))))))

Selected(nmbr, bit) == BitAnd(nmbr, bit) = bit

\* Variant: the buffers are handled from TXB2 down to TXB0.
CAN_Control_Send_CAN_Frame_Descending(m, h, tx, env) ==
    LET a == IF Selected(tx.txbuffernmbr, TXB2) THEN SendBuffer(m, h, tx, 2, env) ELSE m
        b == IF Selected(tx.txbuffernmbr, TXB1) THEN SendBuffer(a, h, tx, 1, env) ELSE a
    IN  Once(a, Once(b, IF Selected(tx.txbuffernmbr, TXB0) THEN SendBuffer(b, h, tx, 0, env) ELSE b))

CAN_Control_Send_CAN_Frame(m, h, tx, env) ==
    LET a == IF Selected(tx.txbuffernmbr, TXB0) THEN SendBuffer(m, h, tx, 0, env) ELSE m
        b == IF Selected(tx.txbuffernmbr, TXB1) THEN SendBuffer(a, h, tx, 1, env) ELSE a
    IN  Once(a, Once(b, IF Selected(tx.txbuffernmbr, TXB2) THEN SendBuffer(b, h, tx, 2, env) ELSE b))

---------------------------------------------------------------------------
(* Frame receiver (can.c, CAN_Control_Read_CAN_Frame).                     *)

RXBnD0(n) == RXB0D0_REG + 16 * n

\* rxid of an extended frame from RXBnSIDH, RXBnSIDL, RXBnEID8, RXBnEID0.
DecodeExtendedId(sidh, sidl, eid8, eid0) ==
    BitOr(BitOr(BitOr(Shl(sidh, 21), Shl(BitAnd(sidl, 224), 18)),
                BitOr(Shl(BitAnd(sidl, 3), 16), Shl(eid8, 8))),
          eid0)

\* Variant: SID[2:0] taken from bits 7:4 of RXBnSIDL.
DecodeStandardId_Shift4(sidh, sidl) == BitOr(Shl(sidh, 3), Shr(sidl, 4))

\* rxid of a standard frame from RXBnSIDH, RXBnSIDL.
DecodeStandardId(sidh, sidl) == BitOr(Shl(sidh, 3), Shr(sidl, 5))

RxFrameType(sidl, dlc) ==
    IF BitAnd(sidl, IDE_RECEIVED_EXTENDED_FRAME) = IDE_RECEIVED_EXTENDED_FRAME
    THEN IF BitAnd(dlc, RTR_RECEIVED_REMOTE_FRAME_REQUEST) = RTR_RECEIVED_REMOTE_FRAME_REQUEST
         THEN RX_EXTENDED_REMOTE_FRAME ELSE RX_EXTENDED_DATA_FRAME
    ELSE IF BitAnd(sidl, SRR_RECEIVED_STANDARD_REMOTE_REQUEST) = SRR_RECEIVED_STANDARD_REMOTE_REQUEST
         THEN RX_STANDARD_REMOTE_FRAME ELSE RX_STANDARD_DATA_FRAME

RxId(sidh, sidl, eid8, eid0) ==
    IF BitAnd(sidl, IDE_RECEIVED_EXTENDED_FRAME) = IDE_RECEIVED_EXTENDED_FRAME
    THEN DecodeExtendedId(sidh, sidl, eid8, eid0)
    ELSE DecodeStandardId(sidh, sidl)

\* Variant: rollover is reported only with the filter-hit bit set as well.
RolloverTest_Filter1(ctrl) ==
    BitAnd(ctrl, BUKT_RXB0_ROLLOVER_ENABLED + BUKT1_RXB0_ROLLOVER_ENABLED + FILHIT_BIT_0)
        > ROLLOVER_ACCEPTANCE_FILTER_0

\* The test read makes on RXB0CTRL before fetching the data of RXB0.
RolloverTest(ctrl) ==
    BitAnd(ctrl, BUKT_RXB0_ROLLOVER_ENABLED + BUKT1_RXB0_ROLLOVER_ENABLED + FILHIT_BIT_0)
        >= ROLLOVER_ACCEPTANCE_FILTER_0

\* Register the data read of buffer k starts at.
RxDataAddr(k, ctrl, ft) ==
    IF k = 0 THEN (IF RolloverTest(ctrl) THEN RXB1D0_REG ELSE RXB0D0_REG)
    ELSE IF ft = RX_EXTENDED_DATA_FRAME THEN RXB1D0_REG
    ELSE RXB1D1_REG

\* Register_Read( ..., rxcan->data[ k ], n ): the bytes land at data[k][0..];
\* data[2][8] is contiguous.
PutData(data, k, bytes) ==
    [i \in DOMAIN data |->
        IF i >= 8 * k /\ i < 8 * k + Len(bytes) THEN bytes[i - 8 * k + 1] ELSE data[i]]

\* The block of RX buffer k (0, 1).  junk: content of spi_read[] when the
\* transport is not valid and nothing is read into it.
ReadBuffer(m, h, rx, k, junk) ==
    LET valid == h.spi \in Transports
        hdr == IF valid THEN RegisterReadData(m, h, RXBnCTRL(k), 6) ELSE [i \in 1 .. 6 |-> junk]
        a == CAN_Control_Register_Read(m, h, RXBnCTRL(k), 6)
        len == hdr[6] % 16
        ft == RxFrameType(hdr[3], hdr[6])
        isdata == ft \in {RX_STANDARD_DATA_FRAME, RX_EXTENDED_DATA_FRAME}
        addr == RxDataAddr(k, hdr[1], ft)
        rx1 == [rx EXCEPT !.accfilter[k] = IF k = 0 THEN hdr[1] % 2 ELSE hdr[1] % 8,
                          !.datalength[k] = len,
                          !.rxid[k] = RxId(hdr[2], hdr[3], hdr[4], hdr[5]),
                          !.rxframetype[k] = ft,
                          !.rolloverstatus =
                              IF k = 0 /\ isdata
                              THEN (IF RolloverTest(hdr[1]) THEN ROLLOVER_OCCURRED
                                    ELSE ROLLOVER_NOT_OCCURRED)
                              ELSE @,
                          !.data = IF isdata /\ valid
                                   THEN PutData(@, k, RegisterReadData(m, h, addr, len))
                                   ELSE @]
    IN  Once(a, Once(rx1, [m |-> IF isdata THEN CAN_Control_Register_Read(a, h, addr, len) ELSE a,
                           rx |-> rx1]))

\* Variant: read acknowledges the buffers it has read by clearing their
\* RXnIF flags in CANINTF.
CAN_Control_Read_CAN_Frame_Clearing(m, h, rx, junk) ==
    LET a == IF Selected(rx.rxbuffernmbr, RXB0) THEN ReadBuffer(m, h, rx, 0, junk)
             ELSE [m |-> m, rx |-> rx]
        b == IF Selected(rx.rxbuffernmbr, RXB1) THEN ReadBuffer(a.m, h, a.rx, 1, junk) ELSE a
    IN  Once(a, Once(b, [m |-> CAN_Control_Register_Bit(b.m, h, CANINTF_REG, rx.rxbuffernmbr % 4, 0),
                         rx |-> b.rx]))

CAN_Control_Read_CAN_Frame(m, h, rx, junk) ==
    LET a == IF Selected(rx.rxbuffernmbr, RXB0) THEN ReadBuffer(m, h, rx, 0, junk)
             ELSE [m |-> m, rx |-> rx]
    IN  Once(a, IF Selected(rx.rxbuffernmbr, RXB1) THEN ReadBuffer(a.m, h, a.rx, 1, junk) ELSE a)

---------------------------------------------------------------------------
(* Status helpers (can.c).                                                 *)

\* Variant: the single-flag cases are tested before the combined one.
TxState_SingleFirst(spi_read) ==
    IF BitAnd(spi_read, TXREQ_PENDING) = TXREQ_PENDING /\ BitAnd(spi_read, ABTF_MESSAGE_ABORTED) = 0
    THEN IF BitAnd(spi_read, TXERR_BUS_ERROR) = TXERR_BUS_ERROR THEN TX_BUS_ERROR
         ELSE IF BitAnd(spi_read, MLOA_LOST_ARBITRATION) = MLOA_LOST_ARBITRATION
         THEN TX_LOST_ARBITRATION
         ELSE TX_PENDING
    ELSE IF BitAnd(spi_read, ABTF_MESSAGE_ABORTED) = ABTF_MESSAGE_ABORTED THEN TX_ABORTED
    ELSE TX_SUCCESS

\* Variant: without the final else branch tx_state keeps its initial value.
TxState_PendingDefault(spi_read) ==
    IF BitAnd(spi_read, TXREQ_PENDING) = TXREQ_PENDING /\ BitAnd(spi_read, ABTF_MESSAGE_ABORTED) = 0
    THEN IF BitAnd(spi_read, TXERR_BUS_ERROR + MLOA_LOST_ARBITRATION)
              = TXERR_BUS_ERROR + MLOA_LOST_ARBITRATION
         THEN TX_BUS_ERROR_AND_LOST_ARBITRATION
         ELSE IF BitAnd(spi_read, TXERR_BUS_ERROR) = TXERR_BUS_ERROR THEN TX_BUS_ERROR
         ELSE IF BitAnd(spi_read, MLOA_LOST_ARBITRATION) = MLOA_LOST_ARBITRATION
         THEN TX_LOST_ARBITRATION
         ELSE TX_PENDING
    ELSE IF BitAnd(spi_read, ABTF_MESSAGE_ABORTED) = ABTF_MESSAGE_ABORTED THEN TX_ABORTED
    ELSE TX_PENDING

\* tx_state computed from the byte spi_read.
TxState(spi_read) ==
    IF BitAnd(spi_read, TXREQ_PENDING) = TXREQ_PENDING /\ BitAnd(spi_read, ABTF_MESSAGE_ABORTED) = 0
    THEN IF BitAnd(spi_read, TXERR_BUS_ERROR + MLOA_LOST_ARBITRATION)
              = TXERR_BUS_ERROR + MLOA_LOST_ARBITRATION
         THEN TX_BUS_ERROR_AND_LOST_ARBITRATION
         ELSE IF BitAnd(spi_read, TXERR_BUS_ERROR) = TXERR_BUS_ERROR THEN TX_BUS_ERROR
         ELSE IF BitAnd(spi_read, MLOA_LOST_ARBITRATION) = MLOA_LOST_ARBITRATION
         THEN TX_LOST_ARBITRATION
         ELSE TX_PENDING
    ELSE IF BitAnd(spi_read, ABTF_MESSAGE_ABORTED) = ABTF_MESSAGE_ABORTED THEN TX_ABORTED
    ELSE TX_SUCCESS

TxBuffers == {TXB0, TXB1, TXB2}

\* TXBnCTRL of the switch case that handles tx_buffer.
TxCtrlOf(tx_buffer) ==
    CASE tx_buffer = TXB0 -> TXB0CTRL_REG
      [] tx_buffer = TXB1 -> TXB1CTRL_REG
      [] tx_buffer = TXB2 -> TXB2CTRL_REG

\* junk: content of the uninitialized spi_read when no byte is read into it.
CAN_Control_TX_CAN_Status(m, h, tx_buffer, junk) ==
    IF tx_buffer <= TXB2
    THEN LET read == tx_buffer \in TxBuffers
             spi_read == IF read /\ h.spi \in Transports
                         THEN RegisterReadData(m, h, TxCtrlOf(tx_buffer), 1)[1]
                         ELSE junk
         IN  [m |-> IF read THEN CAN_Control_Register_Read(m, h, TxCtrlOf(tx_buffer), 1) ELSE m,
              ret |-> TxState(spi_read)]
    ELSE [m |-> m, ret |-> TX_PENDING]

\* Variant: the interrupts are enabled with a BIT MODIFY that sets them.
CAN_Control_Enable_INT_BitSet(m, h, interrupts) ==
    CAN_Control_Register_Bit(m, h, CANINTE_REG, interrupts, interrupts)

CAN_Control_Enable_INT(m, h, interrupts) ==
    CAN_Control_Register_Write(m, h, CANINTE_REG, <<interrupts>>)

\* junk: content of the uninitialized spi_read when no byte is read into it.
CAN_Control_INT_Status(m, h, junk) ==
    [m |-> CAN_Control_Register_Read(m, h, CANINTF_REG, 1),
     ret |-> IF h.spi \in Transports THEN RegisterReadData(m, h, CANINTF_REG, 1)[1] ELSE junk]

\* Variant: every flag of CANINTF is cleared, selected or not.
CAN_Control_Clear_INT_Status_All(m, h, interrupts) ==
    CAN_Control_Register_Bit(m, h, CANINTF_REG, 255, 0)

CAN_Control_Clear_INT_Status(m, h, interrupts) ==
    CAN_Control_Register_Bit(m, h, CANINTF_REG, interrupts, 0)

CAN_Control_ERR_Status(m, h, junk) ==
    [m |-> CAN_Control_Register_Read(m, h, EFLG_REG, 1),
     ret |-> IF h.spi \in Transports THEN RegisterReadData(m, h, EFLG_REG, 1)[1] ELSE junk]

CAN_Control_Clear_ERR_Status(m, h, errors) ==
    CAN_Control_Register_Bit(m, h, EFLG_REG, errors, 0)

\* Variant: the TXBnCTRL of a selected buffer is overwritten with a WRITE.
CAN_Control_TX_CAN_Abort_Write(m, h, tx_buffer) ==
    LET a == IF Selected(tx_buffer, TXB0)
             THEN CAN_Control_Register_Write(m, h, TXB0CTRL_REG, <<TXREQ_NO_PENDING>>)
             ELSE m
        b == IF Selected(tx_buffer, TXB1)
             THEN CAN_Control_Register_Write(a, h, TXB1CTRL_REG, <<TXREQ_NO_PENDING>>)
             ELSE a
    IN  IF Selected(tx_buffer, TXB2)
        THEN CAN_Control_Register_Write(b, h, TXB2CTRL_REG, <<TXREQ_NO_PENDING>>)
        ELSE b

CAN_Control_TX_CAN_Abort(m, h, tx_buffer) ==
    LET a == IF Selected(tx_buffer, TXB0)
             THEN CAN_Control_Register_Bit(m, h, TXB0CTRL_REG, TXREQ_PENDING, TXREQ_NO_PENDING)
             ELSE m
        b == IF Selected(tx_buffer, TXB1)
             THEN CAN_Control_Register_Bit(a, h, TXB1CTRL_REG, TXREQ_PENDING, TXREQ_NO_PENDING)
             ELSE a
    IN  IF Selected(tx_buffer, TXB2)
        THEN CAN_Control_Register_Bit(b, h, TXB2CTRL_REG, TXREQ_PENDING, TXREQ_NO_PENDING)
        ELSE b

\* Variant: ABAT is set and left set.
CAN_Control_TX_CAN_Abort_All_SetOnly(m, h) ==
    CAN_Control_Register_Bit(m, h, CANCTRL_REG, ABAT_REQ_ABORT_TX, ABAT_REQ_ABORT_TX)

CAN_Control_TX_CAN_Abort_All(m, h) ==
    LET a == CAN_Control_Register_Bit(m, h, CANCTRL_REG, ABAT_REQ_ABORT_TX, ABAT_REQ_ABORT_TX)
    IN  CAN_Control_Register_Bit(a, h, CANCTRL_REG, ABAT_REQ_ABORT_TX, ABAT_TERMINATE_REQ_ABORT_TX)

---------------------------------------------------------------------------
(* State machine: the application fills in its structures, then calls the *)
(* driver; every driver function is one action.                            *)

Handle(spi, opmode, oneshot, samplepoint, wakeupfilter, rxbufferopmode, rxbuffer0rollover, baudrate) ==
    [spi |-> spi, opmode |-> opmode, oneshot |-> oneshot, samplepoint |-> samplepoint,
     wakeupfilter |-> wakeupfilter, rxbufferopmode |-> rxbufferopmode,
     rxbuffer0rollover |-> rxbuffer0rollover, baudrate |-> baudrate]

\* A CAN_Control_TX whose three rows hold the same kind of frame; the data
\* bytes differ from row to row and from byte to byte.
TxDescriptor(nmbr, frametype, id, datalength, d0) ==
    [txbuffernmbr |-> nmbr,
     txframetype |-> [k \in 0 .. 2 |-> frametype],
     datalength |-> [k \in 0 .. 2 |-> datalength],
     data |-> [i \in 0 .. 23 |-> d0 + i],
     txid |-> [k \in 0 .. 2 |-> id]]

RxDescriptor(nmbr) ==
    [rxbuffernmbr |-> nmbr,
     rxframetype |-> [k \in 0 .. 1 |-> 0],
     datalength |-> [k \in 0 .. 1 |-> 0],
     accfilter |-> [k \in 0 .. 1 |-> 0],
     rolloverstatus |-> 0,
     data |-> [i \in 0 .. 15 |-> 0],
     rxid |-> [k \in 0 .. 1 |-> 0]]

\* Power-on: both controllers in their reset state, no peripheral enabled.
PowerOn(h, tx, rx) ==
    /\ hcan = h
    /\ txcan = tx
    /\ rxcan = rx
    /\ regs = [s \in Transports |-> Ctl_Reset]
    /\ spiup = {}
    /\ log = <<>>
    /\ call = "none"
    /\ arg = 0
    /\ ret = 0

\* What the bus and the acceptance filters may do with the messages of a
\* send call (the same fate for the three TX buffers).  Only the choices
\* the controller of handle h is open to are drawn: the outcome on the bus
\* in normal mode, the filters' verdict in loopback mode when an RX buffer
\* has its masks and filters on.
NoAccept == [buf |-> 0, filhit |-> 0]

Acceptances ==
    { NoAccept, [buf |-> RXB0, filhit |-> 1] }

Fate(o, a) == [k \in 0 .. 2 |-> [outcome |-> o, acc |-> a, junk |-> 0]]

EnvsFor(h) ==
    IF h.spi \notin Transports THEN {Fate("sent", NoAccept)}
    ELSE LET rf == regs[h.spi]
             any == BitAnd(rf[RXB0CTRL_REG], RXM_RECEIVE_ANY_MESSAGE) = RXM_RECEIVE_ANY_MESSAGE
         IN  IF Ctl_Mode(rf) = NORMAL_OP_MODE
             THEN { Fate(o, NoAccept) : o \in TxOutcomes }
             ELSE IF Ctl_Mode(rf) = LOOPBACK_OP_MODE /\ ~any
             THEN { Fate("sent", a) : a \in Acceptances }
             ELSE {Fate("sent", NoAccept)}

\* Content of a local buffer the driver reads without having filled it.
JunkBytes == {0, 8, 255}

JunkFor(h) == IF h.spi \in Transports THEN {0} ELSE JunkBytes

\* tx_status reads a byte only for a valid transport and TXB0, TXB1 or TXB2.
StatusJunkFor(h, tx_buffer) ==
    IF h.spi \in Transports /\ tx_buffer \in TxBuffers THEN {0} ELSE JunkBytes

\* The machine a driver call starts from, and the state it leaves.
Machine == [regs |-> regs, log |-> <<>>, up |-> spiup]

\* Variant: set_baud_rate records the rate it has programmed in the handle.
HandleAfter_RecordsBaudRate(h, c, a) ==
    IF c = "set_baud_rate" /\ a \in BaudRates THEN [h EXCEPT !.baudrate = a] ELSE h

\* The handle after driver call c with argument a: every function of can.c
\* takes the handle by pointer and only reads its fields.
HandleAfter(h, c, a) == h

Return(m, c, a) ==
    /\ hcan' = HandleAfter(hcan, c, a)
    /\ regs' = m.regs
    /\ spiup' = m.up
    /\ log' = m.log
    /\ call' = c
    /\ arg' = a

\* Every function but init is called on a handle whose transport init
\* has brought up (or on a handle whose transport is not valid).
Ready == hcan.spi \in Transports => hcan.spi \in spiup

DoInit ==
    /\ Return(CAN_Control_Init(Machine, hcan), "init", 0)
    /\ UNCHANGED <<txcan, rxcan, ret>>

DoSetOpMode(opmode) ==
    /\ Ready
    /\ Return(CAN_Control_Set_Op_Mode(Machine, hcan, opmode), "set_op_mode", opmode)
    /\ UNCHANGED <<txcan, rxcan, ret>>

DoSetBaudRate(baudrate) ==
    /\ Ready
    /\ Return(CAN_Control_Set_Baud_Rate(Machine, hcan, baudrate), "set_baud_rate", baudrate)
    /\ UNCHANGED <<txcan, rxcan, ret>>

\* Bytes a send may fetch from behind txcan->data: none unless the data
\* length of a selected data frame reaches past the end of the array.
OverrunJunk(tx) ==
    IF \E k \in 0 .. 2 : /\ Selected(tx.txbuffernmbr, 2 ^ k)
                         /\ ~IsRemote(tx.txframetype[k])
                         /\ 8 * k + tx.datalength[k] > 24
    THEN JunkBytes ELSE {0}

DoSend ==
    /\ Ready
    /\ \E env \in EnvsFor(hcan), j \in OverrunJunk(txcan) :
          Return(CAN_Control_Send_CAN_Frame(Machine, hcan, txcan,
                     [k \in 0 .. 2 |-> [env[k] EXCEPT !.junk = j]]), "send", 0)
    /\ UNCHANGED <<txcan, rxcan, ret>>

DoRead ==
    /\ Ready
    /\ \E junk \in JunkFor(hcan) :
          LET r == CAN_Control_Read_CAN_Frame(Machine, hcan, rxcan, junk)
          IN  Return(r.m, "read", 0) /\ rxcan' = r.rx
    /\ UNCHANGED <<txcan, ret>>

DoTxStatus(tx_buffer) ==
    /\ Ready
    /\ \E junk \in StatusJunkFor(hcan, tx_buffer) :
          LET r == CAN_Control_TX_CAN_Status(Machine, hcan, tx_buffer, junk)
          IN  Return(r.m, "tx_status", tx_buffer) /\ ret' = r.ret
    /\ UNCHANGED <<txcan, rxcan>>

DoClearINT(interrupts) ==
    /\ Ready
    /\ Return(CAN_Control_Clear_INT_Status(Machine, hcan, interrupts), "clear_int", interrupts)
    /\ UNCHANGED <<txcan, rxcan, ret>>

DoEnableINT(interrupts) ==
    /\ Ready
    /\ Return(CAN_Control_Enable_INT(Machine, hcan, interrupts), "enable_int", interrupts)
    /\ UNCHANGED <<txcan, rxcan, ret>>

DoIntStatus ==
    /\ Ready
    /\ \E junk \in JunkFor(hcan) :
          LET r == CAN_Control_INT_Status(Machine, hcan, junk)
          IN  Return(r.m, "int_status", 0) /\ ret' = r.ret
    /\ UNCHANGED <<txcan, rxcan>>

DoErrStatus ==
    /\ Ready
    /\ \E junk \in JunkFor(hcan) :
          LET r == CAN_Control_ERR_Status(Machine, hcan, junk)
          IN  Return(r.m, "err_status", 0) /\ ret' = r.ret
    /\ UNCHANGED <<txcan, rxcan>>

DoClearERR(errors) ==
    /\ Ready
    /\ Return(CAN_Control_Clear_ERR_Status(Machine, hcan, errors), "clear_err", errors)
    /\ UNCHANGED <<txcan, rxcan, ret>>

DoReset ==
    /\ Ready
    /\ Return(CAN_Control_Reset(Machine, hcan), "reset", 0)
    /\ UNCHANGED <<txcan, rxcan, ret>>

DoSetRxMask(hmask) ==
    /\ Ready
    /\ Return(CAN_Control_Set_RX_Mask(Machine, hcan, hmask), "set_rx_mask", hmask.rxmasknmbr)
    /\ UNCHANGED <<txcan, rxcan, ret>>

DoSetRxFilter(hfilter) ==
    /\ Ready
    /\ Return(CAN_Control_Set_RX_Filter(Machine, hcan, hfilter), "set_rx_filter", hfilter.rxfilternmbr)
    /\ UNCHANGED <<txcan, rxcan, ret>>

DoAbort(tx_buffer) ==
    /\ Ready
    /\ Return(CAN_Control_TX_CAN_Abort(Machine, hcan, tx_buffer), "abort", tx_buffer)
    /\ UNCHANGED <<txcan, rxcan, ret>>

DoAbortAll ==
    /\ Ready
    /\ Return(CAN_Control_TX_CAN_Abort_All(Machine, hcan), "abort_all", 0)
    /\ UNCHANGED <<txcan, rxcan, ret>>

\* The application sets the priority of TX buffer k with the BIT MODIFY
\* primitive.
DoSetPriority(k, txp) ==
    /\ Ready
    /\ Return(CAN_Control_Register_Bit(Machine, hcan, TXBnCTRL(k), TXP_HIGHEST_PRIORITY, txp),
              "register_bit", TXBnCTRL(k))
    /\ UNCHANGED <<txcan, rxcan, ret>>

---------------------------------------------------------------------------
(* Reading the event log of a driver call.                                 *)

\* Positions of the instruction bytes: the write that follows a CS enable.
Instructions(l) ==
    SelectSeq([i \in 1 .. Len(l) |-> i],
              LAMBDA i : i > 1 /\ l[i].ev = "write" /\ l[i - 1].ev = "cs_enable")

\* Positions of the instruction bytes of the WRITE transactions of l, and
\* the register each of them addresses.
WriteTransactions(l) ==
    SelectSeq(Instructions(l), LAMBDA i : l[i].bytes = <<WRITE_INS>>)

WriteAddrs(l) ==
    LET w == WriteTransactions(l) IN [j \in 1 .. Len(w) |-> l[w[j] + 1].bytes[1]]

\* No chip-select change and no byte on the bus.
NoSpiTraffic(l) == \A i \in 1 .. Len(l) : l[i].ev = "delay"

---------------------------------------------------------------------------
(* Initialization and configuration: every handle the application can      *)
(* fill in, valid or not, from power-on.                                   *)

InvalidSpi == 2
InvalidOpMode == 5
InvalidBaudRate == 1000000

\* oneshot, samplepoint and wakeupfilter of a handle: all off or all on.
HandleFlags ==
    { <<0, 0, 0>>, <<OSM_ENABLED, SAM_BUS_SAMPLED_THREE, WAKFIL_ENABLED>> }

InitHandles ==
    { Handle(s, o, f[1], f[2], f[3], x, r, b) :
        s \in Transports \cup {InvalidSpi},
        o \in (NORMAL_OP_MODE .. CONFIGURATION_OP_MODE) \cup {InvalidOpMode},
        f \in HandleFlags,
        x \in 0 .. 3,
        r \in 0 .. 1,
        b \in BaudRates \cup {InvalidBaudRate} }

InitInit == \E h \in InitHandles : PowerOn(h, TxDescriptor(0, 0, 0, 0, 0), RxDescriptor(0))

OpModeArgs == {LOOPBACK_OP_MODE, CONFIGURATION_OP_MODE, InvalidOpMode}
BaudRateArgs == {CAN_BAUD_500_KBPS, CAN_BAUD_50_KBPS, InvalidBaudRate}

InitNext ==
    \/ DoInit
    \/ \E o \in OpModeArgs : DoSetOpMode(o)
    \/ \E b \in BaudRateArgs : DoSetBaudRate(b)

SpecInit == InitInit /\ [][InitNext]_vars

---------------------------------------------------------------------------
(* Properties of initialization and configuration (SpecInit).              *)

ValidHandle(h) ==
    h.spi \in Transports /\ h.baudrate \in BaudRates /\ OpModeValid(h.opmode)

\* The WRITE transactions init is to issue for handle h, in order.
ExpectedInitWrites(h) ==
    <<CNF3_REG>>
    \o (IF BitAnd(h.rxbufferopmode, 1) = 1 \/ BitAnd(h.rxbuffer0rollover, 1) = 1
        THEN <<RXB0CTRL_REG>> ELSE <<>>)
    \o (IF BitAnd(h.rxbufferopmode, 2) = 2 THEN <<RXB1CTRL_REG>> ELSE <<>>)
    \o <<CANCTRL_REG>>

\* The events of an init call that runs to its end: the bring-up of the
\* transport, the RESET transaction, two delays, the WRITE of three bytes at
\* CNF3, the RXB0CTRL write if masks/filters are off or rollover is on for
\* RXB0, the RXB1CTRL write if masks/filters are off for RXB1, and last one
\* WRITE to CANCTRL.  RESET and WRITE are the only instructions, CANCTRL is
\* addressed exactly once, and the three bit-timing bytes are in CNF3..CNF1,
\* which only accept writes in configuration mode.
InitSequence ==
    LET ins == Instructions(log)
        w == WriteTransactions(log)
        r == ins[1]
    IN  /\ log[1].ev = "spi_init" /\ log[1].spi = hcan.spi
        /\ Len(ins) = Len(w) + 1
        /\ log[r].bytes = <<RESET_INS>>
        /\ log[r + 1].ev = "cs_disable"
        /\ log[r + 2].ev = "delay" /\ log[r + 3].ev = "delay"
        /\ \A i \in 1 .. (r + 3) : log[i].ev = "delay" => i > r
        /\ WriteAddrs(log) = ExpectedInitWrites(hcan)
        /\ w[1] > r + 3
        /\ Len(log[w[1] + 2].bytes) = 3
        /\ log[w[Len(w)] + 2].bytes = <<regs[hcan.spi][CANCTRL_REG]>>
        /\ Len(SelectSeq(WriteAddrs(log), LAMBDA a : a = CANCTRL_REG)) = 1
        /\ <<regs[hcan.spi][CNF3_REG], regs[hcan.spi][CNF2_REG], regs[hcan.spi][CNF1_REG]>>
               = log[w[1] + 2].bytes
        /\ Ctl_Mode(regs[hcan.spi]) = hcan.opmode

InitUnknownTransportNoOp ==
    [][(call' = "init" /\ hcan.spi \notin Transports) =>
          (log' = <<>> /\ spiup' = spiup /\ regs' = regs /\ hcan' = hcan)]_vars

\* C8 witness: init has returned on a handle with transport selector 2.
InitUnknownTransportWitness ==
    call = "init" /\ hcan.spi = InvalidSpi /\ log = <<>> /\ spiup = {}

\* C9: after init on a handle whose baud rate is not supported, the
\* controller has not been reset, no register has been written and the
\* operation mode is the one it had (from power-on: configuration).
InitUnsupportedBaudNoEffect ==
    (call = "init" /\ hcan.baudrate \notin BaudRates) =>
        /\ NoSpiTraffic(log)
        /\ \A s \in Transports : Ctl_Mode(regs[s]) = CONFIGURATION_OP_MODE

\* C10: a set_operation_mode call with a mode outside the five enumerated
\* values, and a set_baud_rate call with a rate outside the five supported
\* ones, leave no event (no SPI transaction, no delay) and leave the
\* registers and the handle as they were.
InvalidArgumentNoOp ==
    [][((call' = "set_op_mode" /\ ~OpModeValid(arg'))
            \/ (call' = "set_baud_rate" /\ arg' \notin BaudRates)) =>
          (log' = <<>> /\ regs' = regs /\ spiup' = spiup /\ hcan' = hcan)]_vars

\* C10 witness: set_operation_mode(5) has returned on an initialized,
\* valid handle.
InvalidArgumentWitness ==
    /\ call = "set_op_mode" /\ arg = InvalidOpMode
    /\ hcan.spi \in spiup /\ log = <<>>

---------------------------------------------------------------------------
(* Sending and receiving: a node in loopback (or normal) mode whose        *)
(* application sends the frames of its TX descriptor and reads them back.  *)

StandardId == 1365          \* 0x555
ExtendedId == 487370696     \* 0x1D0CAFC8
ExtendedIdLow == 110536     \* 0x0001AFC8

\* <<rxbufferopmode, rxbuffer0rollover>>: both buffers take any message
\* (without and with rollover), only RXB1 does, neither does.
RxConfigs == { <<3, 0>>, <<3, 1>>, <<2, 0>>, <<0, 0>> }

\* Loopback nodes on SPI1 and a node in normal mode on SPI2.
LoopHandles ==
    { Handle(CAN_SPI1, LOOPBACK_OP_MODE, 0, 0, 0, c[1], c[2], CAN_BAUD_125_KBPS) :
        c \in RxConfigs }
    \cup { Handle(CAN_SPI2, NORMAL_OP_MODE, 0, 0, 0, 3, 0, CAN_BAUD_500_KBPS) }

DataFrameKinds ==
    { <<TX_STANDARD_DATA_FRAME, StandardId>>,
      <<TX_EXTENDED_DATA_FRAME, ExtendedId>>, <<TX_EXTENDED_DATA_FRAME, ExtendedIdLow>> }

RemoteFrameKinds ==
    { <<TX_STANDARD_REMOTE_FRAME, StandardId>>, <<TX_EXTENDED_REMOTE_FRAME, ExtendedIdLow>> }

\* A descriptor whose rows hold frames of three kinds and lengths.
MixedDescriptor(nmbr, datalength) ==
    [TxDescriptor(nmbr, 0, 0, 0, 1) EXCEPT
        !.txframetype = [k \in 0 .. 2 |-> (k + datalength) % 4],
        !.datalength = [k \in 0 .. 2 |-> (datalength + 3 * k) % 9],
        !.txid = [k \in 0 .. 2 |-> IF IsExtended((k + datalength) % 4)
                                   THEN ExtendedIdLow ELSE StandardId]]

\* <<txbuffernmbr, datalength>> of the single-buffer descriptors.
SingleBuffer ==
    { <<TXB0, d>> : d \in 0 .. 8 } \cup { <<n, d>> : n \in {TXB1, TXB2}, d \in {1, 8} }

LoopTx ==
    { TxDescriptor(s[1], f[1], f[2], s[2], b) :
        s \in SingleBuffer, f \in DataFrameKinds, b \in 1 .. MaxDataByte }
    \cup { TxDescriptor(s[1], f[1], f[2], s[2], 1) :
        s \in SingleBuffer, f \in RemoteFrameKinds }
    \cup { MixedDescriptor(n, d) : n \in {0, 3, 5, 6, 7}, d \in {0, 1, 2} }

Init ==
    \E h \in LoopHandles, tx \in LoopTx : PowerOn(h, tx, RxDescriptor(RXB0 + RXB1))

Next ==
    \/ DoInit
    \/ DoSend
    \/ DoRead

Spec == Init /\ [][Next]_vars

---------------------------------------------------------------------------
(* Properties of sending and receiving (Spec).                             *)

\* RX buffer r holds a message the host has not acknowledged.
RxFlag(r) == BitAnd(regs[hcan.spi][CANINTF_REG], RXnIF(r)) # 0

\* TX buffer whose registers (TXBnCTRL .. TXBnD7) hold address a.
TxBufferOf(a) == (a - TXB0CTRL_REG) \div 16

IsTxBufferAddr(a) ==
    \E k \in 0 .. 2 : a \in TXBnCTRL(k) .. (TXBnCTRL(k) + 13)

SelectedBuffers(tx) ==
    { k \in 0 .. 2 : Selected(tx.txbuffernmbr, 2 ^ k) }

\* C4: in the events of one send call every transaction is a WRITE to a
\* register of a selected TX buffer, every selected buffer has transactions
\* and no other buffer has any; the buffers appear in the order TXB0, TXB1,
\* TXB2; the last transaction of a buffer is the WRITE to its TXBnCTRL,
\* followed by its settling delay and by the wait, and only then does the
\* first transaction of the next buffer (or the end of the call) come.
SendOrder ==
    (call = "send" /\ hcan.spi \in Transports) =>
        LET w == WriteTransactions(log)
            addr == WriteAddrs(log)
        IN  /\ Len(Instructions(log)) = Len(w)
            /\ \A j \in 1 .. Len(w) : IsTxBufferAddr(addr[j])
            /\ { TxBufferOf(addr[j]) : j \in 1 .. Len(w) } = SelectedBuffers(txcan)
            /\ \A j \in 1 .. Len(w) - 1 : TxBufferOf(addr[j]) <= TxBufferOf(addr[j + 1])
            /\ \A j \in 1 .. Len(w) :
                  (j = Len(w) \/ TxBufferOf(addr[j]) < TxBufferOf(addr[j + 1])) =>
                      /\ addr[j] = TXBnCTRL(TxBufferOf(addr[j]))
                      /\ log[w[j] + 3].ev = "cs_disable"
                      /\ log[w[j] + 4].ev = "delay"
                      /\ log[w[j] + 5].ev = "delay"
                      /\ IF j = Len(w) THEN Len(log) = w[j] + 5
                         ELSE w[j + 1] = w[j] + 7
            /\ (Len(w) = 0 => log = <<>>)

\* C4 witness: a send of all three buffers, with rows of different kinds,
\* has returned.
SendOrderWitness ==
    /\ call = "send" /\ hcan.spi \in Transports
    /\ txcan.txbuffernmbr = TXB0 + TXB1 + TXB2
    /\ txcan.txframetype[0] # txcan.txframetype[1]
    /\ Len(WriteTransactions(log)) >= 7

\* The frame of row k of the TX descriptor is what the RX descriptor shows
\* for RX buffer r.
SameFrame(tx, k, rx, r) ==
    /\ rx.rxframetype[r] = tx.txframetype[k]
    /\ rx.rxid[r] = tx.txid[k]
    /\ rx.datalength[r] = tx.datalength[k]
    /\ ~IsRemote(tx.txframetype[k]) =>
          \A i \in 0 .. (tx.datalength[k] - 1) : rx.data[8 * r + i] = tx.data[8 * k + i]

\* C3: in loopback mode, once the frame of a single-buffer TX descriptor
\* has been sent and the RX buffers read, the RX descriptor shows, for
\* every RX buffer that holds a message (RXnIF set), the frame type, the
\* id, the length and, for a data frame, the data bytes of the frame sent.
LoopbackSymmetry ==
    (/\ call = "read"
     /\ hcan.spi \in Transports
     /\ Ctl_Mode(regs[hcan.spi]) = LOOPBACK_OP_MODE
     /\ txcan.txbuffernmbr \in TxBuffers) =>
        \A r \in 0 .. 1 :
            BitAnd(regs[hcan.spi][CANINTF_REG], RXnIF(r)) # 0 =>
                \A k \in SelectedBuffers(txcan) : SameFrame(txcan, k, rxcan, r)

\* Positions of the instruction bytes of the READ transactions of l, and
\* the register each of them addresses.
ReadTransactions(l) ==
    SelectSeq(Instructions(l), LAMBDA i : l[i].bytes = <<READ_INS>>)

ReadAddrs(l) ==
    LET r == ReadTransactions(l) IN [j \in 1 .. Len(r) |-> l[r[j] + 1].bytes[1]]

\* C16: a read step issues READ transactions only, changes no register of
\* the controller (CANINTF with RX0IF and RX1IF among them), and a read
\* that directly follows a read leaves the RX descriptor as the first one
\* filled it.
ReadTouchesNothing ==
    [][call' = "read" =>
          /\ Len(ReadTransactions(log')) = Len(Instructions(log'))
          /\ Len(ReadTransactions(log')) >= 2
          /\ regs' = regs
          /\ (call = "read" => rxcan' = rxcan)]_vars

\* C16 witness: a received frame has been read and RX0IF is still set.
ReadTouchesNothingWitness ==
    /\ call = "read" /\ RxFlag(0)
    /\ rxcan.rxid[0] = StandardId /\ rxcan.datalength[0] = 8
    /\ Len(ReadTransactions(log)) = 4

\* RX buffer k holds a data frame, as read decides it from RXBnSIDL and
\* RXBnDLC.
HoldsDataFrame(rf, k) ==
    IF BitAnd(rf[RXBnCTRL(k) + 2], IDE_RECEIVED_EXTENDED_FRAME) # 0
    THEN BitAnd(rf[RXBnCTRL(k) + 5], RTR_RECEIVED_REMOTE_FRAME_REQUEST) = 0
    ELSE BitAnd(rf[RXBnCTRL(k) + 2], SRR_RECEIVED_STANDARD_REMOTE_REQUEST) = 0

\* C17: after a read that finds a data frame (standard or extended) in
\* RXB0: if the low three bits of RXB0CTRL are 6 or 7, rolloverstatus is
\* ROLLOVER_OCCURRED and the data READ starts at RXB1D0, so data[0][i] is
\* RXB1D(i) for i < dlc; otherwise rolloverstatus is ROLLOVER_NOT_OCCURRED,
\* the data READ starts at RXB0D0 and data[0][i] is RXB0D(i).  With BUKT
\* and BUKT1 clear it is always ROLLOVER_NOT_OCCURRED.
RolloverRule ==
    (call = "read" /\ HoldsDataFrame(regs[hcan.spi], 0)) =>
        LET rf == regs[hcan.spi]
            low == rf[RXB0CTRL_REG] % 8
            len == rf[RXB0CTRL_REG + 5] % 16
            base == IF low >= 6 THEN RXB1D0_REG ELSE RXB0D0_REG
        IN  /\ rxcan.rolloverstatus = (IF low >= 6 THEN ROLLOVER_OCCURRED ELSE ROLLOVER_NOT_OCCURRED)
            /\ ReadAddrs(log)[1] = RXB0CTRL_REG
            /\ ReadAddrs(log)[2] = base
            /\ \A i \in 0 .. (len - 1) : rxcan.data[i] = rf[base + i]
            /\ (low \div 2 = 0 => rxcan.rolloverstatus = ROLLOVER_NOT_OCCURRED)

\* C17 witness: with rollover enabled a data frame of 8 bytes has been read
\* from RXB0 as rolled over, and its bytes were taken from RXB1D0...
RolloverRuleWitness ==
    /\ call = "read" /\ HoldsDataFrame(regs[hcan.spi], 0) /\ RxFlag(0)
    /\ regs[hcan.spi][RXB0CTRL_REG] % 8 = 6
    /\ rxcan.rolloverstatus = ROLLOVER_OCCURRED
    /\ rxcan.datalength[0] = 8
    /\ ReadAddrs(log)[2] = RXB1D0_REG

\* C18: after a read that finds a data frame (standard or extended) in
\* RXB1, data[1][i] is the content of RXB1D(i) for every i < dlc.
Rxb1DataFromD0 ==
    (call = "read" /\ HoldsDataFrame(regs[hcan.spi], 1)) =>
        \A i \in 0 .. ((regs[hcan.spi][RXB1CTRL_REG + 5] % 16) - 1) :
            rxcan.data[8 + i] = regs[hcan.spi][RXB1D0_REG + i]

---------------------------------------------------------------------------
(* Identifier encoding and decoding: a loopback node that takes any        *)
(* message in RXB0, with the identifier drawn from the whole range.        *)

CodecHandle == Handle(CAN_SPI1, LOOPBACK_OP_MODE, 0, 0, 0, 3, 0, CAN_BAUD_125_KBPS)

StandardIds == 0 .. 2047

\* The extreme identifiers, the one of the demo, the one without the bits
\* 20..18 and every single bit of the 29.
ExtendedIds ==
    {0, 536870911, ExtendedId, ExtendedIdLow, 1835008, 535035903}
    \cup { 2 ^ k : k \in 0 .. 28 }

CodecTx ==
    { TxDescriptor(TXB0, TX_STANDARD_DATA_FRAME, id, 1, 1) : id \in StandardIds }
    \cup { TxDescriptor(TXB1, TX_STANDARD_REMOTE_FRAME, id, 0, 1) :
             id \in { i \in StandardIds : i % 33 = 0 } }
    \cup { TxDescriptor(TXB0, ft, id, 5, 1) :
             ft \in {TX_EXTENDED_DATA_FRAME, TX_EXTENDED_REMOTE_FRAME}, id \in ExtendedIds }

CodecInit == \E tx \in CodecTx : PowerOn(CodecHandle, tx, RxDescriptor(RXB0))

CodecNext ==
    \/ DoInit
    \/ DoSend
    \/ DoRead

SpecCodec == CodecInit /\ [][CodecNext]_vars

\* The four identifier bytes of the WRITE at TXBnSIDH, for each selected
\* TX buffer, in the events of a send call.
IdBytesWritten(l, k) ==
    LET w == SelectSeq(WriteTransactions(l), LAMBDA i : l[i + 1].bytes = <<TXBnSIDH(k)>>)
    IN  SubSeq(l[w[1] + 2].bytes, 1, 4)

RxFull(r) == BitAnd(regs[hcan.spi][CANINTF_REG], RXnIF(r)) # 0

\* C1: an extended frame (data or remote) with a 29-bit identifier that
\* has been sent and received in RXB0 is read back with the identifier
\* sent and the frame type sent (extended).
ExtendedIdRoundTrip ==
    (/\ call = "read" /\ RxFull(0)
     /\ \A k \in SelectedBuffers(txcan) : IsExtended(txcan.txframetype[k])) =>
        \A k \in SelectedBuffers(txcan) :
            /\ rxcan.rxid[0] = txcan.txid[k]
            /\ rxcan.rxframetype[0] = txcan.txframetype[k]

\* C2: for a standard frame with identifier 0..0x7FF, the send call writes
\* SIDH = id[10:3], SIDL = id[2:0] << 5 (bits 4:0 clear), EID8 = EID0 = 0,
\* and once the frame is in RXB0 the read call reports the identifier sent
\* and the frame type sent (standard).
StandardIdRoundTrip ==
    \A k \in SelectedBuffers(txcan) :
        ~IsExtended(txcan.txframetype[k]) =>
            /\ call = "send" =>
                  LET b == IdBytesWritten(log, k)
                  IN  /\ b = << txcan.txid[k] \div 8, (txcan.txid[k] % 8) * 32, 0, 0 >>
                      /\ b[2] % 32 = 0
            /\ (call = "read" /\ RxFull(0)) =>
                  /\ rxcan.rxid[0] = txcan.txid[k]
                  /\ rxcan.rxframetype[0] = txcan.txframetype[k]

\* C2 witness: the standard data frame with identifier 0x7FD has been sent
\* and read back with that identifier.
StandardIdRoundTripWitness ==
    /\ call = "read" /\ RxFull(0)
    /\ txcan.txframetype[0] = TX_STANDARD_DATA_FRAME /\ txcan.txbuffernmbr = TXB0
    /\ txcan.txid[0] = 2045
    /\ rxcan.rxid[0] = 2045
    /\ regs[hcan.spi][TXB0SIDH_REG] = 255 /\ regs[hcan.spi][TXB0SIDH_REG + 1] = 160

---------------------------------------------------------------------------
(* Transmission status: an initialized node whose TXBnCTRL registers hold  *)
(* any byte the transport can deliver.                                     *)

StatusHandle == Handle(CAN_SPI1, NORMAL_OP_MODE, 0, 0, 0, 3, 0, CAN_BAUD_125_KBPS)

\* The state init leaves from power-on, with byte c in the three TXBnCTRL.
StatusInit ==
    \E c \in Byte :
        LET m == CAN_Control_Init([regs |-> [s \in Transports |-> Ctl_Reset],
                                   log |-> <<>>, up |-> {}], StatusHandle)
        IN  /\ hcan = StatusHandle
            /\ txcan = TxDescriptor(0, 0, 0, 0, 0)
            /\ rxcan = RxDescriptor(0)
            /\ regs = [m.regs EXCEPT ![StatusHandle.spi] =
                          [a \in RegAddr |-> IF Ctl_IsTXBnCTRL(a) THEN c ELSE @[a]]]
            /\ spiup = m.up
            /\ log = m.log
            /\ call = "init"
            /\ arg = 0
            /\ ret = 0

\* tx_buffer arguments: the three buffers, and values that name none.
StatusArgs == 0 .. 5

StatusNext == \E b \in StatusArgs : DoTxStatus(b)

SpecStatus == StatusInit /\ [][StatusNext]_vars

Bit(c, mask) == (c \div mask) % 2 = 1

\* C5: after tx_status on TXB0, TXB1 or TXB2, with c the byte in the
\* buffer's TXBnCTRL, the value returned is: aborted if ABTF is set;
\* otherwise, if TXREQ is set, bus error and lost arbitration when TXERR
\* and MLOA are both set, bus error when only TXERR is, lost arbitration
\* when only MLOA is, pending when neither is; otherwise success.
TxStatusDecoding ==
    (call = "tx_status" /\ arg \in TxBuffers) =>
        LET c == regs[hcan.spi][TxCtrlOf(arg)]
        IN  ret = IF Bit(c, 64) THEN TX_ABORTED
                  ELSE IF Bit(c, 8)
                       THEN IF Bit(c, 16) /\ Bit(c, 32) THEN TX_BUS_ERROR_AND_LOST_ARBITRATION
                            ELSE IF Bit(c, 16) THEN TX_BUS_ERROR
                            ELSE IF Bit(c, 32) THEN TX_LOST_ARBITRATION
                            ELSE TX_PENDING
                       ELSE TX_SUCCESS

\* C5 witness: tx_status on TXB1 has returned the combined state for a
\* TXBnCTRL with TXREQ, TXERR and MLOA set and ABTF clear.
TxStatusDecodingWitness ==
    /\ call = "tx_status" /\ arg = TXB1
    /\ regs[hcan.spi][TXB1CTRL_REG] = 56
    /\ ret = TX_BUS_ERROR_AND_LOST_ARBITRATION

---------------------------------------------------------------------------
(* Transmission wait: loopback nodes at each supported baud rate sending   *)
(* frames of each type and length.                                         *)

WaitHandles ==
    { Handle(CAN_SPI1, LOOPBACK_OP_MODE, 0, 0, 0, 3, 0, b) : b \in BaudRates }

WaitTx ==
    { TxDescriptor(n, ft, IF IsExtended(ft) THEN ExtendedIdLow ELSE StandardId, d, 1) :
        n \in {TXB0, TXB2, TXB0 + TXB1 + TXB2},
        ft \in TX_STANDARD_DATA_FRAME .. TX_EXTENDED_REMOTE_FRAME,
        d \in 0 .. 8 }

WaitInit == \E h \in WaitHandles, tx \in WaitTx : PowerOn(h, tx, RxDescriptor(0))

WaitNext ==
    \/ DoInit
    \/ DoSend

SpecWait == WaitInit /\ [][WaitNext]_vars

\* Worst-case number of bits on the bus of a frame of row k.
WorstCaseBits(tx, k) ==
    LET d == tx.datalength[k]
    IN  CASE tx.txframetype[k] = TX_STANDARD_DATA_FRAME -> 8 * d + 44 + ((33 + 8 * d) \div 4)
          [] tx.txframetype[k] = TX_EXTENDED_DATA_FRAME -> 8 * d + 64 + ((53 + 8 * d) \div 4)
          [] tx.txframetype[k] = TX_STANDARD_REMOTE_FRAME -> 50
          [] tx.txframetype[k] = TX_EXTENDED_REMOTE_FRAME -> 73

\* C6: in the events of a send call at a supported baud rate, the WRITE
\* that sets TXREQ of buffer k is followed, after its settling delay, by
\* one delay of exactly (worst-case bits of the frame) * (1000000 / baud)
\* microseconds, for dlc 0..8; 1000000 / baud is exact and the product is
\* below 2^31, so below 2^32.
WaitDuration ==
    (call = "send" /\ hcan.spi \in Transports /\ hcan.baudrate \in BaudRates) =>
        LET w == WriteTransactions(log)
            addr == WriteAddrs(log)
        IN  /\ 1000000 % hcan.baudrate = 0
            /\ \A k \in SelectedBuffers(txcan) :
                  \E j \in 1 .. Len(w) : addr[j] = TXBnCTRL(k)
            /\ \A j \in 1 .. Len(w) :
                  Ctl_IsTXBnCTRL(addr[j]) =>
                      LET k == TxBufferOf(addr[j])
                          us == WorstCaseBits(txcan, k) * (1000000 \div hcan.baudrate)
                      IN  /\ log[w[j] + 2].bytes = <<TXREQ_PENDING>>
                          /\ log[w[j] + 4] = Ev("delay", hcan.spi, <<>>, 50)
                          /\ log[w[j] + 5] = Ev("delay", hcan.spi, <<>>, us)
                          /\ us <= 2147483647

\* C6 witness: an extended data frame of 8 bytes has been sent at
\* 50 kbit/s, with a wait of 157 bit times of 20 us.
WaitDurationWitness ==
    /\ call = "send" /\ hcan.baudrate = CAN_BAUD_50_KBPS
    /\ txcan.txframetype[0] = TX_EXTENDED_DATA_FRAME /\ txcan.datalength[0] = 8
    /\ txcan.txbuffernmbr = TXB0
    /\ log[Len(log)] = Ev("delay", hcan.spi, <<>>, 3140)

---------------------------------------------------------------------------
(* Data length beyond eight: loopback nodes sending frames whose            *)
(* datalength is 8 (the largest of a CAN frame) or 9.                       *)

MaxDlc == 9

DlcHandles ==
    { Handle(CAN_SPI1, LOOPBACK_OP_MODE, 0, 0, 0, 3, r, CAN_BAUD_500_KBPS) : r \in 0 .. 1 }

DlcTx ==
    { TxDescriptor(n, ft, IF IsExtended(ft) THEN ExtendedIdLow ELSE StandardId, d, 1) :
        n \in {TXB0, TXB1, TXB2, TXB0 + TXB2},
        ft \in TX_STANDARD_DATA_FRAME .. TX_EXTENDED_REMOTE_FRAME,
        d \in 8 .. MaxDlc }

DlcInit == \E h \in DlcHandles, tx \in DlcTx : PowerOn(h, tx, RxDescriptor(RXB0 + RXB1))

DlcNext ==
    \/ DoInit
    \/ DoSend

SpecDlc == DlcInit /\ [][DlcNext]_vars

\* C11: in the events of a send call, a selected TX buffer whose datalength
\* is greater than 8 has no transaction: none of its registers (identifier,
\* length, data, TXBnCTRL with TXREQ) is addressed by a WRITE, and none of
\* them has changed.
SendOversizedDlcNoEffect ==
    (call = "send" /\ hcan.spi \in Transports) =>
        \A k \in SelectedBuffers(txcan) :
            txcan.datalength[k] > 8 =>
                /\ \A j \in 1 .. Len(WriteAddrs(log)) : TxBufferOf(WriteAddrs(log)[j]) # k
                /\ \A a \in TXBnCTRL(k) .. (TXBnCTRL(k) + 13) : regs[hcan.spi][a] = Ctl_Reset[a]

---------------------------------------------------------------------------
(* Mode and bit-timing requests: initialized nodes with every combination  *)
(* of the one-shot, sample-point and wake-up-filter settings, asked for    *)
(* each mode and each baud rate.                                           *)

ModeHandles ==
    { Handle(s, o, f, p, w, 0, 0, CAN_BAUD_125_KBPS) :
        s \in Transports,
        o \in {CONFIGURATION_OP_MODE, NORMAL_OP_MODE},
        f \in {0, OSM_ENABLED},
        p \in {0, SAM_BUS_SAMPLED_THREE},
        w \in {0, WAKFIL_ENABLED} }

ModeInit == \E h \in ModeHandles : PowerOn(h, TxDescriptor(0, 0, 0, 0, 0), RxDescriptor(0))

ModeNext ==
    \/ DoInit
    \/ \E o \in NORMAL_OP_MODE .. CONFIGURATION_OP_MODE : DoSetOpMode(o)
    \/ \E b \in BaudRates : DoSetBaudRate(b)

SpecMode == ModeInit /\ [][ModeNext]_vars

\* The events of one WRITE transaction of handle h with its settling delay.
WriteEvents(h, reg_addr, data) ==
    << Ev("cs_enable", h.spi, <<>>, 0),
       Ev("write", h.spi, <<WRITE_INS>>, 0),
       Ev("write", h.spi, <<reg_addr>>, 0),
       Ev("write", h.spi, data, 0),
       Ev("cs_disable", h.spi, <<>>, 0),
       Ev("delay", h.spi, <<>>, 50) >>

\* REQOP code (CANCTRL bits 7:5) of an operation mode.
ReqopCode(opmode) ==
    CASE opmode = NORMAL_OP_MODE -> 0
      [] opmode = SLEEP_OP_MODE -> 1
      [] opmode = LOOPBACK_OP_MODE -> 2
      [] opmode = LISTEN_ONLY_OP_MODE -> 3
      [] opmode = CONFIGURATION_OP_MODE -> 4

\* C12: the events of set_operation_mode with one of the five modes, on an
\* initialized handle, are exactly one WRITE transaction of one byte to
\* CANCTRL (and its settling delay): no READ, no other instruction.  The
\* byte has the REQOP code of the mode in bits 7:5, the one-shot setting of
\* the handle in bit 3 and zeros elsewhere.
SetOpModeWrite ==
    (call = "set_op_mode" /\ OpModeValid(arg)) =>
        log = WriteEvents(hcan, CANCTRL_REG,
                  << 32 * ReqopCode(arg) + (IF hcan.oneshot = OSM_ENABLED THEN 8 ELSE 0) >>)

\* C12 witness: listen-only mode has been requested on a handle with
\* one-shot mode enabled: CANCTRL holds 0x68.
SetOpModeWriteWitness ==
    /\ call = "set_op_mode" /\ arg = LISTEN_ONLY_OP_MODE
    /\ hcan.oneshot = OSM_ENABLED
    /\ regs[hcan.spi][CANCTRL_REG] = 104
    /\ Len(log) = 6

\* C13: after set_operation_mode with one of the five modes, the opmode
\* field of the handle is the mode requested.
HandleRecordsMode ==
    (call = "set_op_mode" /\ OpModeValid(arg)) => hcan.opmode = arg

\* Bit-timing table for the 8 MHz oscillator: <<BRP, PropSeg, PS1, PS2>>.
TimingRow(baudrate) ==
    CASE baudrate = CAN_BAUD_500_KBPS -> <<0, 2, 2, 3>>
      [] baudrate = CAN_BAUD_250_KBPS -> <<0, 4, 5, 6>>
      [] baudrate = CAN_BAUD_125_KBPS -> <<1, 3, 6, 6>>
      [] baudrate = CAN_BAUD_100_KBPS -> <<1, 6, 6, 7>>
      [] baudrate = CAN_BAUD_50_KBPS -> <<3, 6, 6, 7>>

\* C15: the events of set_baud_rate with a supported rate are exactly one
\* WRITE transaction of three bytes starting at CNF3 (and its settling
\* delay); the bytes are, in this order, CNF3 = wake-up-filter bit (bit 6)
\* + (PS2 - 1), CNF2 = BTLMODE (bit 7) + sample-point bit (bit 6)
\* + (PS1 - 1) * 8 + (PropSeg - 1), CNF1 = BRP with SJW bits 7:6 zero, for
\* the row of the rate in the bit-timing table.
BaudRateWrite ==
    (call = "set_baud_rate" /\ arg \in BaudRates) =>
        LET t == TimingRow(arg)
            wakfil == IF hcan.wakeupfilter = WAKFIL_ENABLED THEN 64 ELSE 0
            sam == IF hcan.samplepoint = SAM_BUS_SAMPLED_THREE THEN 64 ELSE 0
        IN  /\ log = WriteEvents(hcan, CNF3_REG,
                         << wakfil + (t[4] - 1),
                            128 + sam + (t[3] - 1) * 8 + (t[2] - 1),
                            t[1] >>)
            /\ t[1] < 64

\* C15 witness: 50 kbit/s has been programmed in configuration mode on a
\* handle with wake-up filter and triple sampling: CNF3..CNF1 hold
\* 0x46, 0xED, 0x03.
BaudRateWriteWitness ==
    /\ call = "set_baud_rate" /\ arg = CAN_BAUD_50_KBPS
    /\ hcan.wakeupfilter = WAKFIL_ENABLED /\ hcan.samplepoint = SAM_BUS_SAMPLED_THREE
    /\ regs[hcan.spi][CNF3_REG] = 70
    /\ regs[hcan.spi][CNF2_REG] = 237
    /\ regs[hcan.spi][CNF1_REG] = 3

---------------------------------------------------------------------------
(* The driver as a whole: a loopback node (RXB0 takes any message, no      *)
(* rollover) on which the application calls the functions in any order.    *)

DriverHandle == Handle(CAN_SPI1, LOOPBACK_OP_MODE, 0, 0, 0, 1, 0, CAN_BAUD_125_KBPS)

DriverTx == TxDescriptor(TXB0, TX_STANDARD_DATA_FRAME, StandardId, 1, 1)

DriverInit == PowerOn(DriverHandle, DriverTx, RxDescriptor(RXB0))

\* Interrupt selections: RX0, and TX0 with RX1.
InterruptArgs ==
    { RX0IE_RXB0_FULL_INTERRUPT_ENABLED,
      TX0IE_TXB0_EMPTY_INTERRUPT_ENABLED + RX1IE_RXB1_FULL_INTERRUPT_ENABLED }

\* Error selections: RX0OVR, and every flag of EFLG.
ErrorArgs == { RX0OVR_RXB0_OVERFLOW, 255 }

DriverNext ==
    \/ DoInit
    \/ DoSetOpMode(LOOPBACK_OP_MODE)
    \/ DoSetBaudRate(CAN_BAUD_250_KBPS)
    \/ DoSend
    \/ DoRead
    \/ DoTxStatus(TXB0)
    \/ \E i \in InterruptArgs : DoEnableINT(i)
    \/ DoIntStatus
    \/ \E i \in InterruptArgs : DoClearINT(i)
    \/ DoErrStatus
    \/ \E e \in ErrorArgs : DoClearERR(e)

SpecDriver == DriverInit /\ [][DriverNext]_vars

BitModifyEvents(h, reg_addr, mask, data) ==
    << Ev("cs_enable", h.spi, <<>>, 0),
       Ev("write", h.spi, <<BIT_MODIFY_INS>>, 0),
       Ev("write", h.spi, <<reg_addr>>, 0),
       Ev("write", h.spi, <<mask>>, 0),
       Ev("write", h.spi, <<data>>, 0),
       Ev("cs_disable", h.spi, <<>>, 0),
       Ev("delay", h.spi, <<>>, 50) >>

\* C19: the events of enable_interrupts(mask) are exactly one WRITE
\* transaction of the byte mask to CANINTE; after it CANINTE holds mask,
\* whatever it held before, and every other register, CANINTF among them,
\* is as it was.
EnableIntOverwrites ==
    [][call' = "enable_int" =>
          /\ log' = WriteEvents(hcan, CANINTE_REG, <<arg'>>)
          /\ regs' = [regs EXCEPT ![hcan.spi][CANINTE_REG] = arg']]_vars

\* C19 witness: enable_interrupts(RX0IE) has returned while the flags
\* TX0IF and RX0IF are pending: CANINTE holds RX0IE only.
EnableIntOverwritesWitness ==
    /\ call = "enable_int" /\ arg = RX0IE_RXB0_FULL_INTERRUPT_ENABLED
    /\ regs[hcan.spi][CANINTE_REG] = RX0IE_RXB0_FULL_INTERRUPT_ENABLED
    /\ regs[hcan.spi][CANINTF_REG] = 5

\* C20: the events of clear_interrupts(mask) are exactly one BIT MODIFY on
\* CANINTF with mask byte mask and data byte 0, after which the selected
\* flags are clear and the other flags are as they were; the events of
\* clear_errors(mask) are exactly one BIT MODIFY on EFLG with mask byte
\* mask and data byte 0, after which the selected overflow flags are clear
\* and the unselected flags are as they were.  No other register changes.
ClearFlagsBitModify ==
    [][/\ call' = "clear_int" =>
             /\ log' = BitModifyEvents(hcan, CANINTF_REG, arg', 0)
             /\ regs' = [regs EXCEPT ![hcan.spi][CANINTF_REG] = BitAnd(@, Not8(arg'))]
       /\ call' = "clear_err" =>
             /\ log' = BitModifyEvents(hcan, EFLG_REG, arg', 0)
             /\ \A a \in RegAddr : a # EFLG_REG => regs'[hcan.spi][a] = regs[hcan.spi][a]
             /\ BitAnd(regs'[hcan.spi][EFLG_REG], Not8(arg'))
                    = BitAnd(regs[hcan.spi][EFLG_REG], Not8(arg'))
             /\ BitAnd(regs'[hcan.spi][EFLG_REG],
                       BitAnd(arg', RX1OVR_RXB1_OVERFLOW + RX0OVR_RXB0_OVERFLOW)) = 0]_vars

\* C20 witness: clear_interrupts(RX0IF) has returned and left TX0IF, which
\* was not selected, pending.
ClearFlagsBitModifyWitness ==
    /\ call = "clear_int" /\ arg = RX0IE_RXB0_FULL_INTERRUPT_ENABLED
    /\ regs[hcan.spi][CANINTF_REG] = TX0IE_TXB0_EMPTY_INTERRUPT_ENABLED
    /\ Len(log) = 7

---------------------------------------------------------------------------
(* Transmission requests, priorities and aborts: one controller in normal  *)
(* mode, where the bus decides what becomes of a requested message.        *)

AbortHandle == Handle(CAN_SPI1, NORMAL_OP_MODE, 0, 0, 0, 3, 0, CAN_BAUD_125_KBPS)

\* The application sends from the three buffers.
AbortTx == TxDescriptor(TXB0 + TXB1 + TXB2, TX_STANDARD_DATA_FRAME, StandardId, 1, 1)

AbortInit == PowerOn(AbortHandle, AbortTx, RxDescriptor(RXB0))

\* tx_buffer arguments of abort: no buffer, one, two, all, and a value with
\* a bit that names no buffer.
AbortArgs == {0, TXB0 + TXB2, TXB0 + TXB1 + TXB2, 8 + TXB1}

AbortNext ==
    \/ DoInit
    \/ DoSend
    \/ DoSetPriority(0, TXP_HIGH_INTER_PRIORITY)
    \/ \E b \in AbortArgs : DoAbort(b)
    \/ DoAbortAll
    \/ \E b \in {TXB0, TXB2} : DoTxStatus(b)

SpecAbort == AbortInit /\ [][AbortNext]_vars

\* The events of the aborts of the buffers tx_buffer selects, TXB0 first.
AbortEvents(h, tx_buffer) ==
    (IF Selected(tx_buffer, TXB0)
     THEN BitModifyEvents(h, TXB0CTRL_REG, TXREQ_PENDING, 0) ELSE <<>>)
    \o (IF Selected(tx_buffer, TXB1)
        THEN BitModifyEvents(h, TXB1CTRL_REG, TXREQ_PENDING, 0) ELSE <<>>)
    \o (IF Selected(tx_buffer, TXB2)
        THEN BitModifyEvents(h, TXB2CTRL_REG, TXREQ_PENDING, 0) ELSE <<>>)

\* C21: the events of abort(buffer_mask) are, for the selected TX buffers
\* and only for them, in the order TXB0, TXB1, TXB2, one BIT MODIFY on
\* TXBnCTRL with the TXREQ bit as mask and data 0; after it TXREQ of every
\* selected buffer is clear, the other bits of its TXBnCTRL (TXP among
\* them) are as they were, and so is every other register.
AbortClearsTxreq ==
    [][call' = "abort" =>
          /\ log' = AbortEvents(hcan, arg')
          /\ regs' = [regs EXCEPT ![hcan.spi] =
                        [a \in RegAddr |->
                            IF \E k \in 0 .. 2 : Selected(arg', 2 ^ k) /\ a = TXBnCTRL(k)
                            THEN BitAnd(@[a], Not8(TXREQ_PENDING))
                            ELSE @[a]]]]_vars

\* C21 witness: abort(TXB0 + TXB2) has returned after a send of the three
\* buffers none of which went out: TXB0 is no longer pending and keeps its
\* priority, TXB1, not selected, is still pending.
AbortClearsTxreqWitness ==
    /\ call = "abort" /\ arg = TXB0 + TXB2
    /\ Len(log) = 14
    /\ regs[hcan.spi][TXB0CTRL_REG] = TXP_HIGH_INTER_PRIORITY
    /\ regs[hcan.spi][TXB1CTRL_REG] = TXREQ_PENDING
    /\ regs[hcan.spi][TXB2CTRL_REG] = 0
    /\ regs[hcan.spi][CANINTF_REG] = 0

\* C22: the events of abort_all are exactly two BIT MODIFY on CANCTRL, both
\* with the ABAT bit as mask, the first with ABAT set in the data and the
\* second with data 0; when it returns ABAT is 0 and the other bits of
\* CANCTRL, REQOP and one-shot among them, are as before.
AbortAllPulsesAbat ==
    [][call' = "abort_all" =>
          /\ log' = BitModifyEvents(hcan, CANCTRL_REG, ABAT_REQ_ABORT_TX, ABAT_REQ_ABORT_TX)
                    \o BitModifyEvents(hcan, CANCTRL_REG, ABAT_REQ_ABORT_TX, 0)
          /\ BitAnd(regs'[hcan.spi][CANCTRL_REG], ABAT_REQ_ABORT_TX) = 0
          /\ BitAnd(regs'[hcan.spi][CANCTRL_REG], Not8(ABAT_REQ_ABORT_TX))
                 = BitAnd(regs[hcan.spi][CANCTRL_REG], Not8(ABAT_REQ_ABORT_TX))]_vars

\* C22 witness: abort_all has returned in normal mode and has aborted the
\* pending transmission of TXB1.
AbortAllPulsesAbatWitness ==
    /\ call = "abort_all"
    /\ Len(log) = 14
    /\ Ctl_Mode(regs[hcan.spi]) = NORMAL_OP_MODE
    /\ regs[hcan.spi][TXB1CTRL_REG] = ABTF_MESSAGE_ABORTED

\* TX buffer k went out during the send that has just returned: the
\* controller has cleared the TXREQ the send had set, and has raised TXnIF.
SentBySend(k) ==
    /\ call = "send"
    /\ k \in SelectedBuffers(txcan)
    /\ BitAnd(regs[hcan.spi][TXBnCTRL(k)], TXREQ_PENDING) = 0
    /\ BitAnd(regs[hcan.spi][CANINTF_REG], TXnIF(k)) = TXnIF(k)

\* C23: a tx_status call that follows the return of send, for a selected
\* TX buffer whose message the controller transmitted without error during
\* the wait of that send, returns success (5), not pending.
SentIsSuccess ==
    [][\A k \in 0 .. 2 :
          (SentBySend(k) /\ call' = "tx_status" /\ arg' = 2 ^ k) => ret' = TX_SUCCESS]_vars

\* C23 witness: tx_status(TXB2) has returned success after the three
\* buffers went out; no message is pending.
SentIsSuccessWitness ==
    /\ call = "tx_status" /\ arg = TXB2 /\ ret = TX_SUCCESS
    /\ regs[hcan.spi][CANINTF_REG] = TXnIF(0) + TXnIF(1) + TXnIF(2)
    /\ \A k \in 0 .. 2 : BitAnd(regs[hcan.spi][TXBnCTRL(k)], TXREQ_PENDING) = 0

---------------------------------------------------------------------------
(* Two controllers, one per transport, as in main: the application calls   *)
(* the driver on either handle, in any order.  The first controller is in  *)
(* loopback mode, so that it receives what it sends; the second stays in   *)
(* configuration mode, where its masks, filters and bit timing are         *)
(* writable.                                                               *)

CAN1_Handler == Handle(CAN_SPI1, LOOPBACK_OP_MODE, 0, 0, 0, RXB0_TURN_MASKS_FILTERS_OFF, 0,
                       CAN_BAUD_125_KBPS)

CAN2_Handler == Handle(CAN_SPI2, CONFIGURATION_OP_MODE, 0, 0, 0, 0, 0, CAN_BAUD_125_KBPS)

BusHandles == {CAN1_Handler, CAN2_Handler}

\* Masks and filters of main: RXM0 and RXM1, RXF0 (standard) and RXF2
\* (extended).
CAN2_Masks ==
    [rxmasknmbr |-> RXM0 + RXM1,
     rxmaskvalue |-> [n \in 0 .. 1 |-> IF n = 0 THEN 536608768 ELSE 536870911]]

CAN2_Filters ==
    [rxfilternmbr |-> RXFn(0) + RXFn(2),
     extendedidenable |-> RXFn(2),
     rxfiltervalue |-> [n \in 0 .. 5 |-> IF n = 0 THEN 357826560
                                         ELSE IF n = 2 THEN 487370696 ELSE 0]]

BusInit == PowerOn(CAN1_Handler, DriverTx, RxDescriptor(RXB0))

\* The application turns to the other handle.
UseHandle(h) ==
    /\ hcan # h
    /\ hcan' = h
    /\ log' = <<>>
    /\ call' = "use"
    /\ arg' = 0
    /\ UNCHANGED <<txcan, rxcan, regs, spiup, ret>>

\* The message path and the aborts run on the first controller, the
\* configuration calls and the flag services on the second.
BusNext ==
    \/ \E h \in BusHandles : UseHandle(h)
    \/ DoInit
    \/ hcan = CAN1_Handler /\ DoSend
    \/ hcan = CAN1_Handler /\ DoRead
    \/ hcan = CAN1_Handler /\ DoTxStatus(TXB0)
    \/ hcan = CAN1_Handler /\ DoAbort(TXB0)
    \/ hcan = CAN1_Handler /\ DoAbortAll
    \/ hcan = CAN1_Handler /\ DoIntStatus
    \/ hcan = CAN1_Handler /\ DoClearINT(RX0IE_RXB0_FULL_INTERRUPT_ENABLED)
    \/ hcan = CAN2_Handler /\ DoReset
    \/ hcan = CAN2_Handler /\ DoSetOpMode(hcan.opmode)
    \/ hcan = CAN2_Handler /\ DoSetBaudRate(CAN_BAUD_250_KBPS)
    \/ hcan = CAN2_Handler /\ DoSetRxMask(CAN2_Masks)
    \/ hcan = CAN2_Handler /\ DoSetRxFilter(CAN2_Filters)
    \/ hcan = CAN2_Handler /\ DoEnableINT(RX0IE_RXB0_FULL_INTERRUPT_ENABLED)
    \/ hcan = CAN2_Handler /\ DoErrStatus
    \/ hcan = CAN2_Handler /\ DoClearERR(RX0OVR_RXB0_OVERFLOW)

SpecBus == BusInit /\ [][BusNext]_vars

\* The events of a reset whose second delay lasts ost microseconds.
ResetEvents(h, ost) ==
    << Ev("cs_enable", h.spi, <<>>, 0),
       Ev("write", h.spi, <<RESET_INS>>, 0),
       Ev("cs_disable", h.spi, <<>>, 0),
       Ev("delay", h.spi, <<>>, 50),
       Ev("delay", h.spi, <<>>, ost) >>

\* Position i of log l starts the five events of a reset with OST ost.
ResetAt(l, i, h, ost) ==
    /\ i + 4 <= Len(l)
    /\ [j \in 1 .. 5 |-> l[i + j - 1]] = ResetEvents(h, ost)

\* A RESET transaction starts at position i of log l.
ResetStarts(l, i) ==
    /\ i < Len(l)
    /\ l[i].ev = "cs_enable"
    /\ l[i + 1].ev = "write" /\ l[i + 1].bytes = <<RESET_INS>>

\* C24 as stated: the RESET transaction is followed by a delay of 50 us
\* and then by the OST delay, 16 ms (16000 us) for the 8 MHz oscillator,
\* before reset returns and before any other transaction starts.
ResetDelays16ms ==
    /\ call = "reset" => log = ResetEvents(hcan, 16000)
    /\ \A i \in 1 .. Len(log) : ResetStarts(log, i) => ResetAt(log, i, hcan, 16000)

\* C24: the RESET transaction is followed by a delay of 50 us and then by
\* the OST delay of 128000000 / osc_hz microseconds, which is 16 us for the
\* 8 MHz oscillator, before reset returns and before any other transaction
\* starts (in reset called alone and in the reset that init runs).
ResetDelays ==
    /\ 128000000 \div OSC1_FREQ = 16
    /\ call = "reset" => log = ResetEvents(hcan, 128000000 \div OSC1_FREQ)
    /\ \A i \in 1 .. Len(log) :
          ResetStarts(log, i) => ResetAt(log, i, hcan, 128000000 \div OSC1_FREQ)

\* C24 witness: reset has returned on the second controller, which is back
\* in configuration mode, after the delays of 50 us and 16 us.
ResetDelaysWitness ==
    /\ call = "reset" /\ hcan = CAN2_Handler
    /\ Len(log) = 5 /\ log[4].us = 50 /\ log[5].us = 16
    /\ regs[CAN_SPI2] = Ctl_Reset

\* The chip select of transport s is asserted after the first i events of l.
Asserted(l, i, s) ==
    \E j \in 1 .. i :
        /\ l[j].ev = "cs_enable" /\ l[j].spi = s
        /\ \A k \in (j + 1) .. i : ~(l[k].ev = "cs_disable" /\ l[k].spi = s)

\* C25: in the events of every driver call a chip select is asserted only
\* when none is asserted, so the two transports are never selected at the
\* same time; every byte moves on a transport whose chip select is
\* asserted; the delay service is called with no chip select asserted; and
\* when the call returns no chip select is asserted.
ChipSelectPairing ==
    /\ \A s \in Transports : ~Asserted(log, Len(log), s)
    /\ \A i \in 1 .. Len(log) :
          /\ log[i].ev = "cs_enable" => \A s \in Transports : ~Asserted(log, i - 1, s)
          /\ log[i].ev \in {"write", "read"} => Asserted(log, i - 1, log[i].spi)
          /\ log[i].ev = "delay" => \A s \in Transports : ~Asserted(log, i - 1, s)
          /\ ~(Asserted(log, i, CAN_SPI1) /\ Asserted(log, i, CAN_SPI2))

\* C25 witness: a read on the first controller has returned, with bytes
\* moved on its transport, while the second transport is up as well.
ChipSelectPairingWitness ==
    /\ call = "read" /\ hcan = CAN1_Handler /\ spiup = Transports
    /\ \E i \in 1 .. Len(log) : log[i].ev = "read" /\ log[i].spi = CAN_SPI1

\* C26: every transaction of a driver call (chip select asserted, then
\* released) is followed at once by a delay of at least 50 us, before the
\* next chip select is asserted and before the call returns.
SettlingDelay ==
    \A i \in 2 .. Len(log) :
        (log[i].ev = "cs_disable" /\ log[i - 1].ev # "spi_init") =>
            /\ i < Len(log)
            /\ log[i + 1].ev = "delay"
            /\ log[i + 1].us >= 50

\* C26 witness: tx_status has returned: one READ transaction and its delay.
SettlingDelayWitness ==
    /\ call = "tx_status"
    /\ Len(log) = 6
    /\ log[5].ev = "cs_disable" /\ log[6] = Ev("delay", hcan.spi, <<>>, 50)

\* C27: every BIT MODIFY in the events of a driver call addresses a
\* register that honours the mask: TXBnCTRL, RXBnCTRL, CNF1..CNF3, BFPCTRL,
\* TXRTSCTRL, CANINTE, CANINTF, EFLG or CANCTRL.
BitModifyTargets ==
    \A j \in 1 .. Len(Instructions(log)) :
        LET i == Instructions(log)[j]
        IN  log[i].bytes = <<BIT_MODIFY_INS>> => Ctl_BitModifiable(log[i + 1].bytes[1])

\* C27 witness: abort_all has returned; its two BIT MODIFY on CANCTRL are
\* in the log.
BitModifyTargetsWitness ==
    /\ call = "abort_all"
    /\ Len(Instructions(log)) = 2
    /\ \A j \in 1 .. 2 : /\ log[Instructions(log)[j]].bytes = <<BIT_MODIFY_INS>>
                         /\ log[Instructions(log)[j] + 1].bytes = <<CANCTRL_REG>>

\* The machine a call on transport s would start from if the controller on
\* the other transport had never been touched.
Alone(m, s) ==
    [m EXCEPT !.regs[CAN_SPI1] = IF s = CAN_SPI1 THEN @ ELSE Ctl_Reset,
              !.regs[CAN_SPI2] = IF s = CAN_SPI2 THEN @ ELSE Ctl_Reset,
              !.up = @ \cap {s}]

\* The machine driver call c with argument a leaves from machine m.
CallOutcome(m, h, c, a, env) ==
    CASE c = "init" -> CAN_Control_Init(m, h)
      [] c = "reset" -> CAN_Control_Reset(m, h)
      [] c = "set_op_mode" -> CAN_Control_Set_Op_Mode(m, h, a)
      [] c = "set_baud_rate" -> CAN_Control_Set_Baud_Rate(m, h, a)
      [] c = "set_rx_mask" -> CAN_Control_Set_RX_Mask(m, h, CAN2_Masks)
      [] c = "set_rx_filter" -> CAN_Control_Set_RX_Filter(m, h, CAN2_Filters)
      [] c = "send" -> CAN_Control_Send_CAN_Frame(m, h, txcan, env)
      [] c = "read" -> CAN_Control_Read_CAN_Frame(m, h, rxcan, 0).m
      [] c = "tx_status" -> CAN_Control_TX_CAN_Status(m, h, a, 0).m
      [] c = "abort" -> CAN_Control_TX_CAN_Abort(m, h, a)
      [] c = "abort_all" -> CAN_Control_TX_CAN_Abort_All(m, h)
      [] c = "enable_int" -> CAN_Control_Enable_INT(m, h, a)
      [] c = "int_status" -> CAN_Control_INT_Status(m, h, 0).m
      [] c = "clear_int" -> CAN_Control_Clear_INT_Status(m, h, a)
      [] c = "err_status" -> CAN_Control_ERR_Status(m, h, 0).m
      [] c = "clear_err" -> CAN_Control_Clear_ERR_Status(m, h, a)

\* C30: a driver call on a handle produces chip-select, write and read
\* events on the transport of that handle only and leaves the controller
\* of the other transport as it was; its events and what it leaves in its
\* own controller are those the same call produces when the other
\* controller has never been touched, so that the calls on the two handles
\* can be interleaved without changing what each transport sees.
HandleIsolation ==
    [][call' # "use" =>
          /\ \A i \in 1 .. Len(log') : log'[i].ev # "delay" => log'[i].spi = hcan.spi
          /\ \A s \in Transports \ {hcan.spi} : regs'[s] = regs[s]
          /\ \E env \in EnvsFor(hcan) :
                LET r == CallOutcome(Alone(Machine, hcan.spi), hcan, call', arg', env)
                IN  /\ log' = r.log
                    /\ regs'[hcan.spi] = r.regs[hcan.spi]]_vars

\* C30 witness: the mask setter has returned on the second controller
\* while the first one holds a received message.
HandleIsolationWitness ==
    /\ call = "set_rx_mask" /\ hcan = CAN2_Handler
    /\ Len(log) = 12
    /\ BitAnd(regs[CAN_SPI1][CANINTF_REG], RXnIF(0)) = RXnIF(0)

\* TXP1:TXP0 of TX buffer k in register file rf.
TxPriority(rf, k) == BitAnd(rf[TXBnCTRL(k)], TXP_HIGHEST_PRIORITY)

\* Log l holds the events ev as a contiguous run.
HasRun(l, ev) ==
    \E i \in 0 .. Len(l) - Len(ev) : [j \in 1 .. Len(ev) |-> l[i + j]] = ev

---------------------------------------------------------------------------
(* Programming the acceptance masks and filters: a controller that init    *)
(* leaves in configuration mode, where RXMn and RXFn are writable.         *)

FilterHandle == Handle(CAN_SPI1, CONFIGURATION_OP_MODE, 0, 0, 0, 0, 0, CAN_BAUD_125_KBPS)

\* A different 29-bit value for every bank: 0x555 << 18, all ones, the
\* extended identifier of the demo, one without SID bits, SID[2:0] alone,
\* and bits 28, 16 and 7.
FilterValues ==
    [n \in 0 .. 5 |->
        CASE n = 0 -> 357826560 [] n = 1 -> 536870911 [] n = 2 -> ExtendedId
          [] n = 3 -> ExtendedIdLow [] n = 4 -> 1835008 [] n = 5 -> 268501120]

\* rxfilternmbr: none, RXF0 + RXF2, all six, RXF3 with a bit that names no
\* filter.  extendedidenable: none, RXF2 alone, all.
FilterSelections == {0, 5, 63, 72}
ExtendedSelections == {0, 4, 63}

FilterArgs ==
    { [rxfilternmbr |-> n, extendedidenable |-> e, rxfiltervalue |-> FilterValues] :
        n \in FilterSelections, e \in ExtendedSelections }

\* rxmasknmbr: none, each, both, RXM0 with a bit that names no mask.
MaskArgs ==
    { [rxmasknmbr |-> n, rxmaskvalue |-> [i \in 0 .. 1 |-> FilterValues[i + 2]]] :
        n \in {0, RXM0, RXM1, RXM0 + RXM1, 4 + RXM0} }

FilterInit == PowerOn(FilterHandle, DriverTx, RxDescriptor(RXB0))

FilterNext ==
    \/ DoInit
    \/ \E hmask \in MaskArgs : DoSetRxMask(hmask)
    \/ \E hfilter \in FilterArgs : DoSetRxFilter(hfilter)

SpecFilter == FilterInit /\ [][FilterNext]_vars

\* SIDH, SIDL, EID8, EID0 of a 29-bit value v by bit fields; exide is 0 or 1.
BankBytes(v, exide) ==
    << (v \div 2097152) % 256,
       32 * ((v \div 262144) % 8) + 8 * exide + ((v \div 65536) % 4),
       (v \div 256) % 256,
       v % 256 >>

\* The events of the WRITEs of the banks first .. last that nmbr selects,
\* lowest bank first; addr[n], value[n] and exide[n] are address, value and
\* EXIDE of bank n.
RECURSIVE BankEvents(_, _, _, _, _, _, _)
BankEvents(h, nmbr, first, last, addr, value, exide) ==
    IF first > last THEN <<>>
    ELSE (IF (nmbr \div 2 ^ first) % 2 = 1
          THEN WriteEvents(h, addr[first], BankBytes(value[first], exide[first]))
          ELSE <<>>)
         \o BankEvents(h, nmbr, first + 1, last, addr, value, exide)

RXMnSIDH(n) == 32 + 4 * n

\* C31: the events of set_rx_mask are, for the selected masks and only for
\* them, RXM0 first, one WRITE of four bytes at RXMnSIDH with the bytes
\* SIDH = v[28:21], SIDL = v[20:18] << 5 | v[17:16], EID8 = v[15:8],
\* EID0 = v[7:0] of the value of that mask, bit 3 of SIDL always clear; the
\* events of set_rx_filter are the same for the selected filters, RXF0
\* first, at RXFnSIDH (0x00, 0x04, 0x08, 0x10, 0x14, 0x18) with bit 3 of
\* SIDL set exactly when bit n of the extended-frame flags is set.  A
\* selection without mask or filter has no events.
BankWrites ==
    [][/\ \A hmask \in MaskArgs :
            DoSetRxMask(hmask) =>
                log' = BankEvents(hcan, hmask.rxmasknmbr, 0, 1,
                                  [n \in 0 .. 1 |-> RXMnSIDH(n)],
                                  hmask.rxmaskvalue, [n \in 0 .. 1 |-> 0])
       /\ \A hfilter \in FilterArgs :
            DoSetRxFilter(hfilter) =>
                log' = BankEvents(hcan, hfilter.rxfilternmbr, 0, 5,
                                  [n \in 0 .. 5 |-> IF n < 3 THEN 4 * n ELSE 4 * n + 4],
                                  hfilter.rxfiltervalue,
                                  [n \in 0 .. 5 |-> (hfilter.extendedidenable \div 2 ^ n) % 2])]_vars

\* C31 witness: set_rx_filter has programmed the six filters with the
\* extended-frame flag of RXF2 alone: six transactions, RXF2SIDL holds
\* 0x68 (SID[2:0] = 3, EXIDE) and RXF0SIDL 0xA0 without EXIDE.
BankWritesWitness ==
    /\ call = "set_rx_filter" /\ arg = 63
    /\ Len(log) = 36
    /\ regs[hcan.spi][9] = 104
    /\ regs[hcan.spi][1] = 160

---------------------------------------------------------------------------
(* The transactions of one TX buffer in a send call (Spec).                *)

\* Positions, in the instruction list of l, of the transactions that
\* address a register of TX buffer k; l[i + 1] carries the address.
BufferTransactions(l, k) ==
    SelectSeq(Instructions(l),
              LAMBDA i : /\ IsTxBufferAddr(l[i + 1].bytes[1])
                         /\ TxBufferOf(l[i + 1].bytes[1]) = k)

\* First chip-select release of l after position i.
ReleaseAfter(l, i) ==
    CHOOSE e \in i .. Len(l) :
        /\ l[e].ev = "cs_disable"
        /\ \A j \in i .. e - 1 : l[j].ev # "cs_disable"

\* C32: in the events of a send call the transactions of a selected TX
\* buffer n are, in this order: a WRITE of five bytes at TXBnSIDH, whose
\* fifth byte is dlc with bit 6 set exactly for a remote frame and whose
\* second byte has bit 3 set exactly for an extended frame; for a data
\* frame only, a WRITE of dlc bytes at TXBnD0; the transaction on TXBnCTRL
\* that requests the transmission; then the settling delay and the wait.
\* A remote frame has no transaction on a data register, and nothing
\* follows the request in the transactions of the buffer.
SendBufferSequence ==
    (call = "send" /\ hcan.spi \in Transports) =>
        \A k \in SelectedBuffers(txcan) :
            LET t == BufferTransactions(log, k)
                ft == txcan.txframetype[k]
                dlc == txcan.datalength[k]
                addrs == [j \in 1 .. Len(t) |-> log[t[j] + 1].bytes[1]]
                id == log[t[1] + 2].bytes
                req == ReleaseAfter(log, t[Len(t)])
            IN  /\ addrs = <<TXBnSIDH(k)>>
                           \o (IF IsRemote(ft) THEN <<>> ELSE <<TXBnD0(k)>>)
                           \o <<TXBnCTRL(k)>>
                /\ log[t[1]].bytes = <<WRITE_INS>>
                /\ Len(id) = 5
                /\ id[5] = dlc + (IF IsRemote(ft) THEN 64 ELSE 0)
                /\ (id[2] \div 8) % 2 = (IF IsExtended(ft) THEN 1 ELSE 0)
                /\ ~IsRemote(ft) =>
                      /\ log[t[2]].bytes = <<WRITE_INS>>
                      /\ Len(log[t[2] + 2].bytes) = dlc
                /\ log[req + 1].ev = "delay"
                /\ log[req + 2].ev = "delay"
                /\ log[req + 2].us = WaitUs(ft, dlc, hcan.baudrate)

\* C32 witness: a send of TXB0 and TXB2 has returned, TXB0 with an
\* extended data frame (three transactions) and TXB2 with an extended
\* remote frame (two).
SendBufferSequenceWitness ==
    /\ call = "send" /\ hcan.spi \in Transports
    /\ txcan.txbuffernmbr = TXB0 + TXB2
    /\ txcan.txframetype[0] = TX_EXTENDED_DATA_FRAME
    /\ txcan.txframetype[2] = TX_EXTENDED_REMOTE_FRAME
    /\ Len(BufferTransactions(log, 0)) = 3
    /\ Len(BufferTransactions(log, 2)) = 2

---------------------------------------------------------------------------
(* Reading into a descriptor that has been used before: loopback nodes     *)
(* that take any message, frames of the four kinds with a data length of   *)
(* up to 9, and an RX descriptor that holds what earlier reads left in it. *)

ReadHandles ==
    { Handle(CAN_SPI1, LOOPBACK_OP_MODE, 0, 0, 0, 3, r, CAN_BAUD_500_KBPS) : r \in 0 .. 1 }

ReadTx ==
    { TxDescriptor(TXB0, ft, IF IsExtended(ft) THEN ExtendedId ELSE StandardId, d, 1) :
        ft \in TX_STANDARD_DATA_FRAME .. TX_EXTENDED_REMOTE_FRAME, d \in {0, 3, 8, MaxDlc} }

\* CAN_Control_RX after earlier reads: a frame in each row and either
\* rollover status; rxbuffernmbr selects none, one or both buffers.
UsedRx ==
    { [rxbuffernmbr |-> n,
       rxframetype |-> [k \in 0 .. 1 |-> RX_EXTENDED_DATA_FRAME],
       datalength |-> [k \in 0 .. 1 |-> 8],
       accfilter |-> [k \in 0 .. 1 |-> 1],
       rolloverstatus |-> s,
       data |-> [i \in 0 .. 15 |-> 170],
       rxid |-> [k \in 0 .. 1 |-> ExtendedIdLow]] :
        n \in {0, RXB0, RXB1, RXB0 + RXB1}, s \in {ROLLOVER_NOT_OCCURRED, ROLLOVER_OCCURRED} }

ReadInit == \E h \in ReadHandles, tx \in ReadTx, rx \in UsedRx : PowerOn(h, tx, rx)

ReadNext ==
    \/ DoInit
    \/ DoSend
    \/ DoRead
    \/ DoClearINT(RX0IE_RXB0_FULL_INTERRUPT_ENABLED)

SpecRead == ReadInit /\ [][ReadNext]_vars

\* The fields of row k of an RX descriptor.
RxRow(rx, k) ==
    << rx.rxframetype[k], rx.datalength[k], rx.accfilter[k], rx.rxid[k],
       [i \in 0 .. 7 |-> rx.data[8 * k + i]] >>

\* C33: a read step on a valid transport issues, for each selected RX
\* buffer, one READ of six bytes at RXBnCTRL and sets accfilter to bit 0
\* (RXB0) or bits 2:0 (RXB1) of RXBnCTRL, datalength to bits 3:0 of
\* RXBnDLC, and rxframetype to extended exactly when bit 3 of RXBnSIDL is
\* set and to remote exactly when bit 6 of RXBnDLC (extended) or bit 4 of
\* RXBnSIDL (standard) is set; the frame type, data length, filter hit,
\* identifier and data of a buffer that is not selected are as before.
ReadDecoding ==
    [][(call' = "read" /\ hcan.spi \in Transports) =>
          \A k \in 0 .. 1 :
              LET rf == regs[hcan.spi]
                  ctrl == rf[RXBnCTRL(k)]
                  sidl == rf[RXBnCTRL(k) + 2]
                  dlc == rf[RXBnCTRL(k) + 5]
                  ext == (sidl \div 8) % 2 = 1
                  rtr == IF ext THEN (dlc \div 64) % 2 = 1 ELSE (sidl \div 16) % 2 = 1
                  hdr == SelectSeq(ReadTransactions(log'),
                                   LAMBDA i : log'[i + 1].bytes = <<RXBnCTRL(k)>>)
              IN  IF Selected(rxcan.rxbuffernmbr, 2 ^ k)
                  THEN /\ Len(hdr) = 1
                       /\ Len(log'[hdr[1] + 2].bytes) = 6
                       /\ rxcan'.accfilter[k] = (IF k = 0 THEN ctrl % 2 ELSE ctrl % 8)
                       /\ rxcan'.datalength[k] = dlc % 16
                       /\ rxcan'.rxframetype[k] =
                             (IF ext THEN (IF rtr THEN RX_EXTENDED_REMOTE_FRAME
                                           ELSE RX_EXTENDED_DATA_FRAME)
                              ELSE (IF rtr THEN RX_STANDARD_REMOTE_FRAME
                                    ELSE RX_STANDARD_DATA_FRAME))
                  ELSE /\ Len(hdr) = 0
                       /\ RxRow(rxcan', k) = RxRow(rxcan, k)]_vars

---------------------------------------------------------------------------
(* The RX buffer control registers after initialization (SpecInit).        *)

\* The data bytes of the WRITE transactions of l that address register a.
WritesAt(l, a) ==
    LET w == SelectSeq(WriteTransactions(l), LAMBDA i : l[i + 1].bytes = <<a>>)
    IN  [j \in 1 .. Len(w) |-> l[w[j] + 2].bytes]

\* C34: in the events of init on a handle with a recognized transport,
\* RXB0CTRL is written exactly when the handle turns the masks and filters
\* of RXB0 off or enables rollover, once, with the byte 0x60 (masks and
\* filters off) + 0x04 (rollover); RXB1CTRL is written exactly when the
\* handle turns the masks and filters of RXB1 off, once, with the byte 0x60
\* whatever the settings for RXB0 are; no other instruction than WRITE
\* follows the reset, and a register that is not written holds its reset
\* value 0.
InitRxControl ==
    (call = "init" /\ hcan.spi \in Transports) =>
        LET any0 == hcan.rxbufferopmode % 2 = 1
            any1 == (hcan.rxbufferopmode \div 2) % 2 = 1
            roll == hcan.rxbuffer0rollover % 2 = 1
        IN  /\ Len(Instructions(log)) = Len(WriteTransactions(log)) + 1
            /\ WritesAt(log, RXB0CTRL_REG) =
                  (IF any0 \/ roll
                   THEN << <<(IF any0 THEN 96 ELSE 0) + (IF roll THEN 4 ELSE 0)>> >>
                   ELSE <<>>)
            /\ WritesAt(log, RXB1CTRL_REG) = (IF any1 THEN << <<96>> >> ELSE <<>>)
            /\ ~(any0 \/ roll) => regs[hcan.spi][RXB0CTRL_REG] = 0
            /\ ~any1 => regs[hcan.spi][RXB1CTRL_REG] = 0

\* C34 witness: init has run on a handle with rollover enabled that turns
\* the masks and filters off for RXB1 only: RXB0CTRL was written with 0x04
\* and RXB1CTRL with 0x60.
InitRxControlWitness ==
    /\ call = "init" /\ hcan.spi \in Transports
    /\ hcan.rxbufferopmode = RXB1_TURN_MASKS_FILTERS_OFF
    /\ hcan.rxbuffer0rollover = RXB0_ROLLOVER_ENABLED
    /\ WritesAt(log, RXB0CTRL_REG) = << <<4>> >>
    /\ regs[hcan.spi][RXB1CTRL_REG] = 96

---------------------------------------------------------------------------
(* The bit time the CNF bytes stand for (SpecMode).                        *)

\* C35: the three bytes set_baud_rate writes for a supported rate, read as
\* PS2 = CNF3[2:0] + 1, PS1 = CNF2[5:3] + 1, PropSeg = CNF2[2:0] + 1,
\* BRP = CNF1[5:0] and SJW = CNF1[7:6] + 1, give a bit of
\* 1 + PropSeg + PS1 + PS2 time quanta of 2 * (BRP + 1) oscillator periods
\* that lasts 8000000 / rate periods exactly; the sample point
\* (1 + PropSeg + PS1) / (1 + PropSeg + PS1 + PS2) is 62.5 % at 500, 250
\* and 125 kbit/s and 65 % at 100 and 50 kbit/s; and PropSeg + PS1 >= PS2,
\* PS2 >= 2 and PS2 > SJW.
NominalBitTime ==
    (call = "set_baud_rate" /\ arg \in BaudRates /\ hcan.spi \in Transports) =>
        LET cnf == WritesAt(log, CNF3_REG)[1]
            ps2 == (cnf[1] % 8) + 1
            ps1 == ((cnf[2] \div 8) % 8) + 1
            prseg == (cnf[2] % 8) + 1
            brp == cnf[3] % 64
            sjw == (cnf[3] \div 64) + 1
            tq == 1 + prseg + ps1 + ps2
        IN  /\ Len(WritesAt(log, CNF3_REG)) = 1 /\ Len(cnf) = 3
            /\ tq * 2 * (brp + 1) * arg = OSC1_FREQ
            /\ 1000 * (1 + prseg + ps1) =
                  (IF arg \in {CAN_BAUD_500_KBPS, CAN_BAUD_250_KBPS, CAN_BAUD_125_KBPS}
                   THEN 625 ELSE 650) * tq
            /\ prseg + ps1 >= ps2
            /\ ps2 >= 2
            /\ ps2 > sjw

\* C35 witness: 50 kbit/s has been programmed: 20 time quanta of 1 us,
\* sample point after 13 of them.
NominalBitTimeWitness ==
    /\ call = "set_baud_rate" /\ arg = CAN_BAUD_50_KBPS /\ hcan.spi \in Transports
    /\ WritesAt(log, CNF3_REG)[1][3] = 3
    /\ WritesAt(log, CNF3_REG)[1][1] % 8 = 6

---------------------------------------------------------------------------
(* A filter for the frame the application sends: a controller in           *)
(* configuration mode whose filter is programmed with the identifier of    *)
(* the TX descriptor, as main does for 0x555 and 0x1D0CAFC8.               *)

AgreeTx ==
    { TxDescriptor(TXB0, TX_STANDARD_DATA_FRAME, id, 1, 1) : id \in StandardIds }
    \cup { TxDescriptor(TXB0, TX_EXTENDED_DATA_FRAME, id, 1, 1) : id \in ExtendedIds }

\* RXF0 for a standard identifier (value id << 18), RXF2 with the
\* extended-frame flag for an extended one (value id).
FilterFor(tx) ==
    LET ext == IsExtended(tx.txframetype[0])
        n == IF ext THEN 2 ELSE 0
    IN  [rxfilternmbr |-> RXFn(n),
         extendedidenable |-> IF ext THEN RXFn(n) ELSE 0,
         rxfiltervalue |-> [i \in 0 .. 5 |->
                               IF i # n THEN 0
                               ELSE IF ext THEN tx.txid[0] ELSE tx.txid[0] * 262144]]

AgreeInit == \E tx \in AgreeTx : PowerOn(FilterHandle, tx, RxDescriptor(RXB0))

AgreeNext ==
    \/ DoInit
    \/ DoSetRxFilter(FilterFor(txcan))
    \/ DoSend

SpecAgree == AgreeInit /\ [][AgreeNext]_vars

\* Bytes b (filter) and t (transmit buffer) agree on SIDH and SID[2:0] for
\* a standard identifier, and on EID[17:16], EID8 and EID0 as well for an
\* extended one.
SameIdBytes(ext, b, t) ==
    /\ b[1] = t[1]
    /\ b[2] \div 32 = t[2] \div 32
    /\ ext => (b[2] % 4 = t[2] % 4 /\ b[3] = t[3] /\ b[4] = t[4])

\* C36: the bytes set_rx_filter writes at RXFnSIDH for the filter value
\* s << 18 of an 11-bit standard identifier s are, in SIDH and SIDL[7:5],
\* the bytes a send of a standard frame with identifier s writes at
\* TXB0SIDH; for a 29-bit extended identifier e and the filter value e
\* they are the same in SIDH, SIDL[7:5], SIDL[1:0], EID8 and EID0.  The
\* same holds of the registers once both calls have been made.
FilterMatchesSend ==
    (call = "set_rx_filter" /\ hcan.spi \in Transports) =>
        LET ext == IsExtended(txcan.txframetype[0])
            rxf == RXFnSIDH(IF ext THEN 2 ELSE 0)
            rf == regs[hcan.spi]
            sent == CAN_Control_Send_CAN_Frame(Machine, hcan, txcan, Fate("sent", NoAccept))
        IN  /\ Len(WritesAt(log, rxf)) = 1
            /\ SameIdBytes(ext, WritesAt(log, rxf)[1], WritesAt(sent.log, TXB0SIDH_REG)[1])
            /\ BitAnd(rf[TXB0CTRL_REG], TXREQ_PENDING) # 0 =>
                  SameIdBytes(ext, [i \in 1 .. 4 |-> rf[rxf + i - 1]],
                                   [i \in 1 .. 4 |-> rf[TXB0SIDH_REG + i - 1]])

\* C36 witness: the standard frame 0x7FD has been sent and then RXF0 has
\* been programmed with 0x7FD << 18: RXF0SIDH and TXB0SIDH hold 0xFF,
\* RXF0SIDL and TXB0SIDL 0xA0.
FilterMatchesSendWitness ==
    /\ call = "set_rx_filter" /\ txcan.txid[0] = 2045
    /\ txcan.txframetype[0] = TX_STANDARD_DATA_FRAME
    /\ BitAnd(regs[hcan.spi][TXB0CTRL_REG], TXREQ_PENDING) # 0
    /\ regs[hcan.spi][RXF0SIDH_REG] = 255 /\ regs[hcan.spi][TXB0SIDH_REG] = 255
    /\ regs[hcan.spi][RXF0SIDH_REG + 1] = 160 /\ regs[hcan.spi][TXB0SIDH_REG + 1] = 160

----------------------------------------------------------------------------
(* Transmission status of a tx_buffer that names no single buffer.         *)

\* C37: after tx_status with a tx_buffer that is not exactly one of TXB0,
\* TXB1, TXB2 (0, 3, or a value above 4), no SPI transaction was issued and
\* the value returned is pending.
TxStatusOtherIdPending ==
    (call = "tx_status" /\ arg \notin TxBuffers) =>
        (log = <<>> /\ ret = TX_PENDING)

----------------------------------------------------------------------------
(* Length of the data WRITE of a send.                                     *)

\* C38: in the events of a send call, whatever datalength the descriptor
\* holds, the WRITE at TXBnD0 of a selected buffer carries at most 8 data
\* bytes, so that it ends at TXBnD7 at the latest, and these bytes are the
\* leading bytes of row n of the descriptor's data.
SendDataWithinBuffer ==
    (call = "send" /\ hcan.spi \in Transports) =>
        \A k \in SelectedBuffers(txcan) :
            LET w == WritesAt(log, TXBnD0(k))
            IN  \A j \in 1 .. Len(w) :
                    /\ Len(w[j]) <= 8
                    /\ \A i \in 1 .. Len(w[j]) : w[j][i] = txcan.data[8 * k + i - 1]

----------------------------------------------------------------------------
(* Rollover status after a read of RXB0.                                   *)

\* C39: on a read step that selects RXB0 on a valid transport, the
\* rolloverstatus the descriptor ends with is the same whichever
\* rolloverstatus it held before the call: it is determined by the RXB0
\* registers read in the call alone, also when RXB0 holds a remote frame.
RolloverFromRegisters ==
    [][(call' = "read" /\ hcan.spi \in Transports /\ Selected(rxcan.rxbuffernmbr, RXB0)) =>
          \A s \in {ROLLOVER_NOT_OCCURRED, ROLLOVER_OCCURRED} :
              CAN_Control_Read_CAN_Frame(Machine, hcan,
                  [rxcan EXCEPT !.rolloverstatus = s], 0).rx.rolloverstatus
                  = rxcan'.rolloverstatus]_vars

----------------------------------------------------------------------------
(* Changing the bit rate after init: a node initialized in configuration   *)
(* mode at one rate, reprogrammed to any supported rate, then sending.     *)

RateHandles ==
    { Handle(CAN_SPI1, CONFIGURATION_OP_MODE, 0, 0, 0, 3, 0, b) :
        b \in {CAN_BAUD_125_KBPS, CAN_BAUD_500_KBPS} }

RateTx ==
    { TxDescriptor(TXB0, ft, IF IsExtended(ft) THEN ExtendedIdLow ELSE StandardId, 8, 1) :
        ft \in {TX_STANDARD_DATA_FRAME, TX_EXTENDED_REMOTE_FRAME} }

RateInit == \E h \in RateHandles, tx \in RateTx : PowerOn(h, tx, RxDescriptor(0))

RateNext ==
    \/ DoInit
    \/ \E b \in BaudRates : DoSetBaudRate(b)
    \/ \E o \in {LOOPBACK_OP_MODE, CONFIGURATION_OP_MODE} : DoSetOpMode(o)
    \/ DoSend

SpecRate == RateInit /\ [][RateNext]_vars

\* Bit rate the bit timing registers of register file rf stand for.
ProgrammedRate(rf) ==
    LET tq == 4 + (rf[CNF3_REG] % 8) + ((rf[CNF2_REG] \div 8) % 8) + (rf[CNF2_REG] % 8)
    IN  OSC1_FREQ \div (tq * 2 * ((rf[CNF1_REG] % 64) + 1))

\* C40: in the events of a send call, the wait that follows the request of
\* buffer k is (worst-case bits of the frame) * (1000000 / r) microseconds,
\* r being the bit rate the controller's bit timing registers hold, that
\* is the rate of the last set_baud_rate that programmed them, also when
\* r differs from the baudrate field of the handle.
WaitAtProgrammedRate ==
    (call = "send" /\ hcan.spi \in Transports) =>
        LET w == WriteTransactions(log)
            addr == WriteAddrs(log)
            r == ProgrammedRate(regs[hcan.spi])
        IN  \A j \in 1 .. Len(w) :
                Ctl_IsTXBnCTRL(addr[j]) =>
                    log[w[j] + 5] = Ev("delay", hcan.spi, <<>>,
                        WorstCaseBits(txcan, TxBufferOf(addr[j])) * (1000000 \div r))

=============================================================================
